---- MODULE Spec2Model ----
(***************************************************************************)
(* Model of the workflow transformation engine of onboard-migration-tool:  *)
(* WorkflowParser.merge_job_into_workflow and                              *)
(* WorkflowParser.insert_step_into_job (backend/workflow_parser.py).       *)
(*                                                                         *)
(* A workflow text is represented by the value PyYAML loads from it: a     *)
(* tree of mappings (insertion-ordered, as Python dicts are), sequences    *)
(* and strings. Strings are sequences of one-character strings so that     *)
(* substring search, lower(), split() and rstrip() are computed as the     *)
(* code computes them. The text an operation returns is represented by the *)
(* tree the dumper writes, with every string as represent_str writes it.   *)
(***************************************************************************)
EXTENDS Integers, Sequences, FiniteSets, TLC

VARIABLES doc, call, out

vars == <<doc, call, out>>

-----------------------------------------------------------------------------
(* Bounds of the model *)

\* largest number of jobs in an input document
MaxJobs == 2

\* largest number of steps in the step list of an input job
MaxSteps == 3

-----------------------------------------------------------------------------
(* YAML values *)

Str(cs) == [t |-> "str", s |-> cs]

Map(es) == [t |-> "map", m |-> es]

Lst(xs) == [t |-> "seq", e |-> xs]

Null == [t |-> "null"]

Entry(key, val) == [k |-> key, v |-> val]

Range(f) == {f[i] : i \in DOMAIN f}

\* Python: key in d
dict_has(d, key) == \E i \in DOMAIN d.m : d.m[i].k = key

\* Python: d[key]
dict_get(d, key) == d.m[CHOOSE i \in DOMAIN d.m : d.m[i].k = key].v

\* Python: d[key] = val  (an existing key keeps its position, a new key goes last)
dict_set(d, key, val) ==
    IF dict_has(d, key)
    THEN Map([i \in DOMAIN d.m |-> IF d.m[i].k = key THEN Entry(key, val) ELSE d.m[i]])
    ELSE Map(Append(d.m, Entry(key, val)))

\* Python: list(d.keys())
dict_keys(d) == [i \in DOMAIN d.m |-> d.m[i].k]

-----------------------------------------------------------------------------
(* Strings *)

UpperAlpha ==
    <<"A","B","C","D","E","F","G","H","I","J","K","L","M",
      "N","O","P","Q","R","S","T","U","V","W","X","Y","Z">>

LowerAlpha ==
    <<"a","b","c","d","e","f","g","h","i","j","k","l","m",
      "n","o","p","q","r","s","t","u","v","w","x","y","z">>

\* Python: str.lower()
str_lower(s) ==
    [i \in DOMAIN s |->
        IF \E n \in DOMAIN UpperAlpha : UpperAlpha[n] = s[i]
        THEN LowerAlpha[CHOOSE n \in DOMAIN UpperAlpha : UpperAlpha[n] = s[i]]
        ELSE s[i]]

\* Python: sub in s
str_contains(s, sub) ==
    \E i \in 1..(Len(s) - Len(sub) + 1) : SubSeq(s, i, i + Len(sub) - 1) = sub

Whitespace == {" ", "\t", "\r", "\n"}

\* Python: line.rstrip()
RECURSIVE str_rstrip(_)
str_rstrip(s) ==
    IF s /= <<>> /\ s[Len(s)] \in Whitespace
    THEN str_rstrip(SubSeq(s, 1, Len(s) - 1))
    ELSE s

\* Python: data.split('\n')
RECURSIVE str_split(_)
str_split(s) ==
    IF \E i \in DOMAIN s : s[i] = "\n"
    THEN LET i == CHOOSE j \in DOMAIN s :
                      s[j] = "\n" /\ \A h \in 1..(j - 1) : s[h] /= "\n"
         IN  <<SubSeq(s, 1, i - 1)>> \o str_split(SubSeq(s, i + 1, Len(s)))
    ELSE <<s>>

\* Python: '\n'.join(lines)
RECURSIVE str_join(_)
str_join(lines) ==
    IF Len(lines) = 1
    THEN lines[1]
    ELSE lines[1] \o <<"\n">> \o str_join(Tail(lines))

\* the string the dumper writes for data: a multi-line string loses the
\* trailing whitespace of each of its lines, a single-line string is kept
represent_str(data) ==
    IF \E i \in DOMAIN data : data[i] = "\n"
    THEN LET lines == str_split(data)
         IN  str_join([i \in DOMAIN lines |-> str_rstrip(lines[i])])
    ELSE data

\* yaml.dump(value, Dumper=WorkflowYAMLDumper, sort_keys=False): the tree
\* that the returned text denotes
RECURSIVE yaml_dump(_)
yaml_dump(v) ==
    CASE v.t = "str" -> Str(represent_str(v.s))
      [] v.t = "map" -> Map([i \in DOMAIN v.m |-> Entry(v.m[i].k, yaml_dump(v.m[i].v))])
      [] v.t = "seq" -> Lst([i \in DOMAIN v.e |-> yaml_dump(v.e[i])])
      [] OTHER -> v

-----------------------------------------------------------------------------
(* Python list operations *)

\* Python: lst.insert(index, x)
list_insert(lst, index, x) ==
    LET n == Len(lst)
        at == IF index < 0
              THEN (IF n + index < 0 THEN 0 ELSE n + index)
              ELSE (IF index > n THEN n ELSE index)
    IN  SubSeq(lst, 1, at) \o <<x>> \o SubSeq(lst, at + 1, n)

\* Python: lst.extend(new_steps)
list_extend(lst, new_steps) == lst \o new_steps

\* Python: for new_step in reversed(new_steps): lst.insert(insert_index, new_step)
RECURSIVE insert_reversed(_, _, _)
insert_reversed(lst, new_steps, insert_index) ==
    IF new_steps = <<>>
    THEN lst
    ELSE insert_reversed(list_insert(lst, insert_index, new_steps[Len(new_steps)]),
                         SubSeq(new_steps, 1, Len(new_steps) - 1),
                         insert_index)

-----------------------------------------------------------------------------
(* merge_job_into_workflow *)

\* the result of an operation: a returned text (ok) or a raised error
Returned(d) == [ok |-> TRUE, err |-> "", doc |-> d]

Raised(e) == [ok |-> FALSE, err |-> e, doc |-> Null]

\* an optional job id (None is <<>>) is truthy when given and not empty
truthy(opt) == opt /= <<>> /\ opt[1] /= ""

\* a fragment given as a mapping with a single top-level key is taken to be
\* {job name: job body} and replaced by the value of that key
unwrap_job(job_dict) ==
    IF job_dict.t = "map" /\ Len(job_dict.m) = 1
    THEN job_dict.m[1].v
    ELSE job_dict

\* the loop that rebuilds the jobs mapping with the new job after insert_after
RECURSIVE rebuild_jobs(_, _, _, _, _)
rebuild_jobs(items, new_jobs, job_id, job_dict, insert_after) ==
    IF items = <<>>
    THEN new_jobs
    ELSE LET existing == Head(items)
             kept == dict_set(new_jobs, existing.k, existing.v)
             next == IF existing.k = insert_after
                     THEN dict_set(kept, job_id, job_dict)
                     ELSE kept
         IN  rebuild_jobs(Tail(items), next, job_id, job_dict, insert_after)

merge_job_into_workflow(workflow_content, job_yaml, job_id, insert_after) ==
    LET job_dict == unwrap_job(job_yaml)
        workflow_dict == IF dict_has(workflow_content, "jobs")
                         THEN workflow_content
                         ELSE dict_set(workflow_content, "jobs", Map(<<>>))
        jobs == dict_get(workflow_dict, "jobs")
        merged == IF truthy(insert_after) /\ dict_has(jobs, insert_after[1])
                  THEN dict_set(workflow_dict, "jobs",
                                rebuild_jobs(jobs.m, Map(<<>>), job_id, job_dict,
                                             insert_after[1]))
                  ELSE dict_set(workflow_dict, "jobs", dict_set(jobs, job_id, job_dict))
    IN  Returned(yaml_dump(merged))

-----------------------------------------------------------------------------
(* insert_step_into_job *)

ErrStepShape == "ValueError: Step YAML must be a dict or list"

ErrJobNotFound == "ValueError: Job not found in workflow"

ErrKey == "KeyError"

build_keywords ==
    << <<"b","u","i","l","d">>,
       <<"c","o","m","p","i","l","e">>,
       <<"m","a","v","e","n">>,
       <<"g","r","a","d","l","e">>,
       <<"n","p","m"," ","r","u","n"," ","b","u","i","l","d">>,
       <<"t","e","s","t">> >>

\* Python: (step.get(key) or '').lower(); the values of name and run are
\* strings in every document of the model
step_text(step, key) ==
    IF dict_has(step, key) /\ dict_get(step, key).t = "str"
    THEN str_lower(dict_get(step, key).s)
    ELSE <<>>

\* any(keyword in step_name or keyword in step_run for keyword in build_keywords)
is_build_step(step) ==
    LET step_name == step_text(step, "name")
        step_run == step_text(step, "run")
    IN  \E n \in DOMAIN build_keywords :
            \/ str_contains(step_name, build_keywords[n])
            \/ str_contains(step_run, build_keywords[n])

\* the loop over enumerate(job['steps']); i is the 0-based index of the next step
RECURSIVE after_build_scan(_, _, _)
after_build_scan(steps, i, insert_index) ==
    IF i >= Len(steps)
    THEN insert_index
    ELSE after_build_scan(steps, i + 1,
                          IF is_build_step(steps[i + 1]) THEN i + 1 ELSE insert_index)

\* a faulty variant: stops at the first build step instead of the last
after_build_index_first(steps) ==
    IF \E i \in DOMAIN steps : is_build_step(steps[i])
    THEN CHOOSE i \in DOMAIN steps :
             is_build_step(steps[i]) /\ \A h \in 1..(i - 1) : ~is_build_step(steps[h])
    ELSE Len(steps)

\* insert_index of position 'after_build'
after_build_index(steps) == after_build_scan(steps, 0, Len(steps))

\* a faulty variant: inserts after the last step
before_end_index_last(steps) == Len(steps)

\* insert_index of position 'before_end': max(0, len(job['steps']) - 1)
before_end_index(steps) == IF Len(steps) - 1 > 0 THEN Len(steps) - 1 ELSE 0

\* a faulty variant: the new steps go in front of the existing ones
place_at_end_front(steps, new_steps) == new_steps \o steps

\* position 'end' (and any unrecognised position): job['steps'].extend(new_steps)
place_at_end(steps, new_steps) == list_extend(steps, new_steps)

\* the step list of the target job after the insertion
place_steps(steps, new_steps, insert_position) ==
    CASE insert_position = "end" -> place_at_end(steps, new_steps)
      [] insert_position = "after_build" ->
            insert_reversed(steps, new_steps, after_build_index(steps))
      [] insert_position = "before_end" ->
            insert_reversed(steps, new_steps, before_end_index(steps))
      [] OTHER -> place_at_end(steps, new_steps)

\* a faulty variant: the target job is looked up without the check, so a
\* missing job surfaces as the KeyError of the lookup
insert_step_error_unchecked(workflow_dict, step_data, target_job) ==
    IF step_data.t \notin {"map", "seq"}
    THEN ErrStepShape
    ELSE IF ~dict_has(workflow_dict, "jobs")
            \/ ~dict_has(dict_get(workflow_dict, "jobs"), target_job)
         THEN ErrKey
         ELSE ""

\* the error insert_step_into_job raises ("" when it raises none): the shape
\* of the step fragment is checked before the target job is looked up
insert_step_error(workflow_dict, step_data, target_job) ==
    IF step_data.t \notin {"map", "seq"}
    THEN ErrStepShape
    ELSE IF ~dict_has(workflow_dict, "jobs")
            \/ ~dict_has(dict_get(workflow_dict, "jobs"), target_job)
         THEN ErrJobNotFound
         ELSE ""

insert_step_into_job(workflow_dict, step_data, target_job, insert_position) ==
    LET error == insert_step_error(workflow_dict, step_data, target_job)
        new_steps == IF step_data.t = "map" THEN <<step_data>> ELSE step_data.e
        jobs == dict_get(workflow_dict, "jobs")
        job0 == dict_get(jobs, target_job)
        job == IF dict_has(job0, "steps") THEN job0 ELSE dict_set(job0, "steps", Lst(<<>>))
        steps == place_steps(dict_get(job, "steps").e, new_steps, insert_position)
        merged == dict_set(workflow_dict, "jobs",
                           dict_set(jobs, target_job, dict_set(job, "steps", Lst(steps))))
    IN  IF error /= "" THEN Raised(error) ELSE Returned(yaml_dump(merged))

-----------------------------------------------------------------------------
(* compare_yaml_structures (workflow_duplicate_detector.py): deep equality  *)
(* that ignores the key order of mappings and keeps the order of sequences *)

\* a faulty variant: plain equality, for which the key order of a mapping counts
compare_yaml_structures_ordered(struct1, struct2) == struct1 = struct2

RECURSIVE compare_yaml_structures(_, _)
compare_yaml_structures(struct1, struct2) ==
    IF struct1.t /= struct2.t
    THEN FALSE
    ELSE CASE struct1.t = "map" ->
                 /\ Range(dict_keys(struct1)) = Range(dict_keys(struct2))
                 /\ \A i \in DOMAIN struct1.m :
                        compare_yaml_structures(struct1.m[i].v,
                                                dict_get(struct2, struct1.m[i].k))
           [] struct1.t = "seq" ->
                 /\ Len(struct1.e) = Len(struct2.e)
                 /\ \A i \in DOMAIN struct1.e :
                        compare_yaml_structures(struct1.e[i], struct2.e[i])
           [] OTHER -> struct1 = struct2

-----------------------------------------------------------------------------
(* Input documents and fragments *)

\* a step that runs an action and has neither a name nor a command
StepCheckout == Map(<<Entry("uses", Str(<<"c","h","e","c","k","o","u","t">>))>>)

\* a build step: its name holds the keyword once lowered
StepBuild ==
    Map(<<Entry("name", Str(<<"B","u","i","l","d">>)),
          Entry("run", Str(<<"m","a","k","e">>))>>)

\* a test step: its command holds the keyword, it has no name
StepTest == Map(<<Entry("run", Str(<<"n","p","m"," ","t","e","s","t">>))>>)

\* a step whose command has two lines, the first one ending in a blank
StepScript ==
    Map(<<Entry("name", Str(<<"L","i","n","t">>)),
          Entry("run", Str(<<"a"," ","\n","b">>))>>)

\* the steps of a security fragment
StepScan ==
    Map(<<Entry("name", Str(<<"S","c","a","n">>)),
          Entry("uses", Str(<<"p","o","l","a","r","i","s">>))>>)

StepReport == Map(<<Entry("run", Str(<<"s","a","r","i","f">>))>>)

StepPool == {StepCheckout, StepBuild, StepTest, StepScript}

RunsOn == Entry("runs-on", Str(<<"u","b","u","n","t","u">>))

JobIds == {"build", "test", "deploy"}

\* the body each job id has in the documents with several jobs
JobBody(id) ==
    CASE id = "build" -> Map(<<RunsOn, Entry("steps", Lst(<<StepBuild, StepTest>>))>>)
      [] id = "test" -> Map(<<RunsOn, Entry("steps", Lst(<<StepScript>>))>>)
      [] OTHER -> Map(<<RunsOn>>)

\* the top-level keys other than jobs
TopPlain == <<Entry("name", Str(<<"C","I">>))>>

TopEnv ==
    <<Entry("name", Str(<<"C","I">>)),
      Entry("env", Map(<<Entry("MSG", Str(<<"x","\t","\n","y">>))>>))>>

\* the sequences of at most n distinct job ids
IdSeqs(n) ==
    UNION {{q \in [1..len -> JobIds] : \A i, j \in 1..len : i /= j => q[i] /= q[j]}
             : len \in 0..n}

\* the sequences of at most n steps
StepSeqs(n) == UNION {[1..len -> StepPool] : len \in 0..n}

WorkflowOf(top, jobs) == Map(Append(top, Entry("jobs", Map(jobs))))

\* documents with up to MaxJobs jobs
JobDocs ==
    {WorkflowOf(top, [i \in DOMAIN q |-> Entry(q[i], JobBody(q[i]))])
        : top \in {TopPlain, TopEnv}, q \in IdSeqs(MaxJobs)}

\* documents whose job build has any step list of up to MaxSteps steps, alone
\* or with the job test before or after it
StepDocs ==
    UNION {LET target == Entry("build", Map(<<RunsOn, Entry("steps", Lst(steps))>>))
               other == Entry("test", JobBody("test"))
           IN  {WorkflowOf(TopPlain, <<target>>),
                WorkflowOf(TopPlain, <<other, target>>),
                WorkflowOf(TopPlain, <<target, other>>)}
             : steps \in StepSeqs(MaxSteps)}

\* documents without a jobs section
NoJobsDocs == {Map(TopPlain), Map(TopEnv)}

Documents == JobDocs \cup StepDocs \cup NoJobsDocs

\* job bodies a fragment can hold: with two keys, and with the single key steps
BodyScan == Map(<<RunsOn, Entry("steps", Lst(<<StepScan>>))>>)

BodyStepsOnly == Map(<<Entry("steps", Lst(<<StepScan>>))>>)

JobBodies == {BodyScan, BodyStepsOnly}

\* a job body wrapped in a one-entry mapping {job name: body}
Wrapped(body) == Map(<<Entry("scan", body)>>)

JobFragments == JobBodies \cup {Wrapped(b) : b \in JobBodies}

\* step fragments: one step, lists of steps, and a scalar (neither of both)
StepFragments ==
    {StepScan, Lst(<<StepScan>>), Lst(<<StepScan, StepReport>>),
     Lst(<<StepReport, StepScript>>), Str(<<"p","o","l","a","r","i","s">>)}

\* insert_after: None, the empty string, or a job id
InsertAfters == {<<>>, <<"">>} \cup {<<j>> : j \in JobIds}

Positions == {"end", "after_build", "before_end", "start"}

-----------------------------------------------------------------------------
(* The state machine: a document is given, and an operation is applied to it *)

NoCall ==
    [op |-> "none", fragment |-> Null, job_id |-> "", insert_after |-> <<>>,
     target_job |-> "", insert_position |-> ""]

Init ==
    /\ doc \in Documents
    /\ call = NoCall
    /\ out = Raised("")

MergeJob ==
    /\ call.op = "none"
    /\ \E job_yaml \in JobFragments, job_id \in JobIds, insert_after \in InsertAfters :
          /\ call' = [NoCall EXCEPT !.op = "merge_job", !.fragment = job_yaml,
                                    !.job_id = job_id, !.insert_after = insert_after]
          /\ out' = merge_job_into_workflow(doc, job_yaml, job_id, insert_after)
    /\ UNCHANGED doc

InsertStep ==
    /\ call.op = "none"
    /\ \E step_yaml \in StepFragments, target_job \in JobIds, position \in Positions :
          /\ call' = [NoCall EXCEPT !.op = "insert_step", !.fragment = step_yaml,
                                    !.target_job = target_job,
                                    !.insert_position = position]
          /\ out' = insert_step_into_job(doc, step_yaml, target_job, position)
    /\ UNCHANGED doc

Next == MergeJob \/ InsertStep

Spec == Init /\ [][Next]_vars

-----------------------------------------------------------------------------
(* Reading documents *)

\* the jobs mapping of a document (empty when it has no jobs section)
JobsOf(d) == IF dict_has(d, "jobs") THEN dict_get(d, "jobs") ELSE Map(<<>>)

\* the job ids of a document, in document order
JobOrder(d) == dict_keys(JobsOf(d))

HasJob(d, id) == dict_has(JobsOf(d), id)

JobOf(d, id) == dict_get(JobsOf(d), id)

\* the step list of a job (empty when the job has no steps key)
StepsOf(d, id) ==
    IF dict_has(JobOf(d, id), "steps") THEN dict_get(JobOf(d, id), "steps").e ELSE <<>>

\* a sequence without the element x
RECURSIVE Without(_, _)
Without(q, x) ==
    IF q = <<>> THEN <<>>
    ELSE IF Head(q) = x THEN Without(Tail(q), x)
    ELSE <<Head(q)>> \o Without(Tail(q), x)

\* a mapping without the key
WithoutKey(d, key) == Map(SelectSeq(d.m, LAMBDA en : en.k /= key))

\* the steps of a step fragment
FragmentSteps(f) == IF f.t = "map" THEN <<f>> ELSE f.e

\* steps with the block new placed after the first at steps
Spliced(steps, at, new) ==
    SubSeq(steps, 1, at) \o new \o SubSeq(steps, at + 1, Len(steps))

\* the steps as the returned text holds them
Written(steps) == yaml_dump(Lst(steps)).e

Merged == call.op = "merge_job"

Inserted == call.op = "insert_step"

\* every job of doc other than the target is in the result, equal to what it
\* was, and the jobs other than the one named keep their order
OtherJobsKept(except) ==
    /\ \A id \in Range(JobOrder(doc)) \ {except} :
          /\ HasJob(out.doc, id)
          /\ compare_yaml_structures(JobOf(doc, id), JobOf(out.doc, id))
    /\ Without(JobOrder(out.doc), except) = Without(JobOrder(doc), except)

\* the top-level keys other than jobs are what they were
TopLevelKept ==
    compare_yaml_structures(WithoutKey(doc, "jobs"), WithoutKey(out.doc, "jobs"))

-----------------------------------------------------------------------------
(* Claims *)

\* C1: whenever merge_job with insert_after = X, X a job of the document
\* (other than job_id), returns a document, the job keyed job_id comes
\* immediately after X in the job order of the result.
C1_PlacedAfter ==
    (Merged /\ out.ok /\ call.insert_after /= <<>>
       /\ HasJob(doc, call.insert_after[1])
       /\ call.insert_after[1] /= call.job_id)
    => \E i \in DOMAIN JobOrder(out.doc) :
          /\ JobOrder(out.doc)[i] = call.insert_after[1]
          /\ i + 1 \in DOMAIN JobOrder(out.doc)
          /\ JobOrder(out.doc)[i + 1] = call.job_id

\* C2: merge_job fails whenever job_id is already a job of the document: no
\* document is returned (and so the existing job is not replaced).
C2_DuplicateRejected ==
    (Merged /\ HasJob(doc, call.job_id)) => ~out.ok

\* C3: merge_job with a new job_id leaves every job of the document present
\* with structurally unchanged content and in the same relative order, and
\* leaves all top-level keys other than jobs unchanged.
C3_MergeFrame ==
    (Merged /\ out.ok /\ ~HasJob(doc, call.job_id))
    => (OtherJobsKept(call.job_id) /\ TopLevelKept)

\* C4: insert_step gives the target job its original steps with the steps of
\* the fragment inserted as one contiguous block in fragment order, leaves the
\* other attributes of the target job unchanged, and leaves every other job
\* unchanged and in the same order.
C4_InsertFrame ==
    (Inserted /\ out.ok)
    => /\ HasJob(out.doc, call.target_job)
       /\ \E at \in 0..Len(StepsOf(doc, call.target_job)) :
             compare_yaml_structures(
                 Lst(StepsOf(out.doc, call.target_job)),
                 Lst(Spliced(StepsOf(doc, call.target_job), at,
                             FragmentSteps(call.fragment))))
       /\ compare_yaml_structures(
              WithoutKey(JobOf(doc, call.target_job), "steps"),
              WithoutKey(JobOf(out.doc, call.target_job), "steps"))
       /\ OtherJobsKept(call.target_job)
       /\ JobOrder(out.doc) = JobOrder(doc)

\* the place after the last step of the build/test keyword family, the end
\* of the list when no step is of that family
AfterLastBuildStep(steps) ==
    IF \E i \in DOMAIN steps : is_build_step(steps[i])
    THEN CHOOSE i \in DOMAIN steps :
             is_build_step(steps[i])
             /\ \A h \in DOMAIN steps : is_build_step(steps[h]) => h <= i
    ELSE Len(steps)

C6_BeforeEnd ==
    (Inserted /\ out.ok /\ call.insert_position = "before_end")
    => LET steps == StepsOf(doc, call.target_job)
           new == FragmentSteps(call.fragment)
           n == Len(steps)
       IN  StepsOf(out.doc, call.target_job) =
               Written(IF n >= 2
                       THEN SubSeq(steps, 1, n - 1) \o new \o <<steps[n]>>
                       ELSE new \o steps)

\* a two-step fragment placed before the last of three steps
C6_Witness ==
    /\ Inserted /\ out.ok /\ call.insert_position = "before_end"
    /\ StepsOf(doc, call.target_job) = <<StepCheckout, StepBuild, StepTest>>
    /\ StepsOf(out.doc, call.target_job) =
           <<StepCheckout, StepBuild, StepScan, StepReport, StepTest>>

\* C7 (steps are compared as the returned text holds them): insert_step with
\* position end appends the steps of the fragment, in fragment order, after
\* all existing steps of the target job, creating the step list if the job
\* has none; the last step of the result is the last
\* step of the fragment.
C7_AtEnd ==
    (Inserted /\ out.ok /\ call.insert_position = "end")
    => LET steps == StepsOf(doc, call.target_job)
           new == FragmentSteps(call.fragment)
           result == StepsOf(out.doc, call.target_job)
       IN  /\ dict_has(JobOf(out.doc, call.target_job), "steps")
           /\ result = Written(steps \o new)
           /\ result[Len(result)] = Written(new)[Len(new)]

\* a two-step fragment appended to a job that has steps
C7_Witness ==
    /\ Inserted /\ out.ok /\ call.insert_position = "end"
    /\ StepsOf(doc, call.target_job) = <<StepBuild, StepCheckout>>
    /\ StepsOf(out.doc, call.target_job) =
           <<StepBuild, StepCheckout, StepScan, StepReport>>

\* C8 as claimed: insert_step fails with JobNotFoundError whenever
\* target_job_id is not a job of the document, and returns no document.
C8_JobNotFoundAlways ==
    (Inserted /\ ~HasJob(doc, call.target_job))
    => (~out.ok /\ out.err = ErrJobNotFound)

\* C8, amended: insert_step fails and returns no document whenever
\* target_job_id is not a job of the document (a document with no jobs
\* section included); the error is JobNotFoundError when the fragment is a
\* step or a sequence of steps, and the fragment shape error, raised first,
\* when it is neither.
C8_JobNotFound ==
    (Inserted /\ ~HasJob(doc, call.target_job))
    => /\ ~out.ok
       /\ out.doc = Null
       /\ out.err = IF call.fragment.t \in {"map", "seq"}
                    THEN ErrJobNotFound
                    ELSE ErrStepShape

\* a well-shaped fragment and a document with no jobs section
C8_Witness ==
    /\ Inserted
    /\ ~dict_has(doc, "jobs")
    /\ call.fragment = StepScan
    /\ out = Raised(ErrJobNotFound)

\* C9: for every job body B and a new job id, merge_job with the bare body B
\* and with the one-entry mapping {k: B} produce the same document, in which
\* the job stored under job_id is structurally equal to B.
C9_BareOrWrapped ==
    (Merged /\ out.ok /\ call.fragment \in JobBodies /\ ~HasJob(doc, call.job_id))
    => LET wrapped == merge_job_into_workflow(doc, Wrapped(call.fragment),
                                              call.job_id, call.insert_after)
       IN  /\ wrapped.ok
           /\ compare_yaml_structures(out.doc, wrapped.doc)
           /\ JobOrder(out.doc) = JobOrder(wrapped.doc)
           /\ compare_yaml_structures(JobOf(out.doc, call.job_id), call.fragment)

\* C10: when insert_after is absent or names no job of the document, the new
\* job is the last job of the result and all jobs the document had precede
\* it in their original order.
C10_AppendedLast ==
    (Merged /\ out.ok
       /\ (call.insert_after = <<>> \/ ~HasJob(doc, call.insert_after[1])))
    => JobOrder(out.doc) = Append(JobOrder(doc), call.job_id)

-----------------------------------------------------------------------------
(* DuplicateDetector.detect_job_duplicates (workflow_duplicate_detector.py) *)

\* Python: not value (None, and the empty mapping, sequence and string)
py_not(value) ==
    CASE value.t = "null" -> TRUE
      [] value.t = "map" -> value.m = <<>>
      [] value.t = "seq" -> value.e = <<>>
      [] value.t = "str" -> value.s = <<>>
      [] value.t = "bool" -> ~value.b
      [] OTHER -> FALSE

\* the entry appended to duplicates for a job
job_duplicate(job_name) == [type |-> "job", job_name |-> job_name]

\* for job_name, job_content in workflow_jobs.items(): the matches, in order
RECURSIVE job_duplicates_scan(_, _)
job_duplicates_scan(items, template_data) ==
    IF items = <<>> THEN <<>>
    ELSE (IF compare_yaml_structures(Head(items).v, template_data)
          THEN <<job_duplicate(Head(items).k)>>
          ELSE <<>>) \o job_duplicates_scan(Tail(items), template_data)

\* detect_job_duplicates on the loaded document and the loaded template; an
\* exception inside the try block ends the call with what was found so far
detect_job_duplicates(workflow_data, template_data) ==
    IF py_not(workflow_data) \/ py_not(template_data) THEN <<>>
    ELSE IF workflow_data.t /= "map" THEN <<>>
    ELSE LET workflow_jobs == IF dict_has(workflow_data, "jobs")
                              THEN dict_get(workflow_data, "jobs")
                              ELSE Map(<<>>)
         IN  IF template_data.t /= "map" THEN <<>>
             ELSE IF workflow_jobs.t /= "map" THEN <<>>
             ELSE job_duplicates_scan(workflow_jobs.m, template_data)

-----------------------------------------------------------------------------
(* DuplicateDetector.detect_step_duplicates *)

\* the entry appended to duplicates for a run of steps: the indices are
\* list(range(i, i + template_len)), counted from 0
step_duplicate(job_name, i, template_len) ==
    [type |-> "steps", job_name |-> job_name,
     step_indices |-> [h \in 1..template_len |-> i + h - 1]]

\* a faulty variant: the last window is never looked at
window_count_short(steps_len, template_len) == steps_len - template_len

\* the argument of range(): the number of windows of a step list
window_count(steps_len, template_len) == steps_len - template_len + 1

\* for i in range(...): the windows of one job that equal the template, from i on
RECURSIVE window_scan(_, _, _, _)
window_scan(job_name, job_steps, template_data, i) ==
    IF i >= window_count(Len(job_steps), Len(template_data))
    THEN <<>>
    ELSE LET consecutive_steps == SubSeq(job_steps, i + 1, i + Len(template_data))
         IN  (IF compare_yaml_structures(Lst(consecutive_steps), Lst(template_data))
              THEN <<step_duplicate(job_name, i, Len(template_data))>>
              ELSE <<>>) \o window_scan(job_name, job_steps, template_data, i + 1)

\* for job_name, job_content in workflow_jobs.items(): a job that is no
\* mapping makes job_content.get raise, and the except block ends the scan
RECURSIVE step_duplicates_scan(_, _)
step_duplicates_scan(items, template_data) ==
    IF items = <<>> THEN <<>>
    ELSE LET job_content == Head(items).v
         IN  IF job_content.t /= "map" THEN <<>>
             ELSE LET job_steps == IF dict_has(job_content, "steps")
                                   THEN dict_get(job_content, "steps")
                                   ELSE Lst(<<>>)
                  IN  (IF job_steps.t /= "seq"
                       THEN <<>>
                       ELSE window_scan(Head(items).k, job_steps.e, template_data.e, 0))
                      \o step_duplicates_scan(Tail(items), template_data)

detect_step_duplicates(workflow_data, template_data) ==
    IF py_not(workflow_data) \/ py_not(template_data) THEN <<>>
    ELSE IF workflow_data.t /= "map" THEN <<>>
    ELSE LET workflow_jobs == IF dict_has(workflow_data, "jobs")
                              THEN dict_get(workflow_data, "jobs")
                              ELSE Map(<<>>)
         IN  IF template_data.t /= "seq" THEN <<>>
             ELSE IF workflow_jobs.t /= "map" THEN <<>>
             ELSE step_duplicates_scan(workflow_jobs.m, template_data)

-----------------------------------------------------------------------------
(* Documents and templates given to the detector *)

\* longest step list of a job in the documents searched for runs of steps
MaxRun == 4

\* longest step template
MaxWindow == 2

\* the value with the keys of every mapping in it in the opposite order
RECURSIVE KeysReversed(_)
KeysReversed(v) ==
    CASE v.t = "map" ->
             Map([i \in DOMAIN v.m |->
                     Entry(v.m[Len(v.m) + 1 - i].k, KeysReversed(v.m[Len(v.m) + 1 - i].v))])
      [] v.t = "seq" -> Lst([i \in DOMAIN v.e |-> KeysReversed(v.e[i])])
      [] OTHER -> v

\* the job with its steps in the opposite order
StepsReversed(job) ==
    IF job.t = "map" /\ dict_has(job, "steps") /\ dict_get(job, "steps").t = "seq"
    THEN LET steps == dict_get(job, "steps").e
         IN  dict_set(job, "steps", Lst([i \in DOMAIN steps |-> steps[Len(steps) + 1 - i]]))
    ELSE job

\* a scan job of two steps, and jobs that differ from it in one respect
JobScan == Map(<<RunsOn, Entry("steps", Lst(<<StepScan, StepReport>>))>>)

JobScanNeeds ==
    Map(<<RunsOn, Entry("needs", Str(<<"b","u","i","l","d">>)),
          Entry("steps", Lst(<<StepScan, StepReport>>))>>)

JobScanCheckout == Map(<<RunsOn, Entry("steps", Lst(<<StepCheckout, StepReport>>))>>)

DetectBodies ==
    {JobScan, KeysReversed(JobScan), StepsReversed(JobScan), JobScanNeeds,
     JobScanCheckout, Map(<<RunsOn>>)}

\* documents of up to MaxJobs jobs, each with any of the bodies
DetectJobDocs ==
    UNION {{WorkflowOf(TopPlain, [i \in DOMAIN q |-> Entry(q[i], b[i])])
              : b \in [DOMAIN q -> DetectBodies]} : q \in IdSeqs(MaxJobs)}

\* job templates: the bodies, and values that are no job at all
DetectJobTemplates == DetectBodies \cup {Lst(<<StepScan>>), Map(<<>>)}

WindowSteps == {StepCheckout, StepBuild, StepTest, StepScan}

RunSeqs(pool, lo, hi) == UNION {[1..len -> pool] : len \in lo..hi}

\* documents whose job build has any step list of up to MaxRun steps, alone or
\* followed by a job test with a short step list
DetectStepDocs ==
    UNION {LET target == Entry("build", Map(<<RunsOn, Entry("steps", Lst(steps))>>))
           IN  {WorkflowOf(TopPlain, <<target>>)} \cup
               {WorkflowOf(TopPlain,
                           <<target, Entry("test", Map(<<RunsOn, Entry("steps", Lst(more))>>))>>)
                  : more \in {<<StepCheckout, StepBuild>>, <<StepBuild>>}}
             : steps \in RunSeqs(WindowSteps, 0, MaxRun)}

\* step templates: the runs of up to MaxWindow steps, a step being written with
\* its keys in either order, and a single step that is not in a list
DetectStepTemplates ==
    {Lst(q) : q \in RunSeqs({StepCheckout, StepBuild, KeysReversed(StepBuild), StepTest},
                            1, MaxWindow)}
    \cup {StepBuild}

DetectDocuments == DetectJobDocs \cup DetectStepDocs \cup {Map(<<>>)}

-----------------------------------------------------------------------------
(* The detector's state machine: a document is given and searched once *)

InitDetect ==
    /\ doc \in DetectDocuments
    /\ call = NoCall
    /\ out = Raised("")

DetectJobs ==
    /\ call.op = "none"
    /\ \E template_data \in DetectJobTemplates :
          /\ call' = [NoCall EXCEPT !.op = "detect_job", !.fragment = template_data]
          /\ out' = Returned(detect_job_duplicates(doc, template_data))
    /\ UNCHANGED doc

DetectSteps ==
    /\ call.op = "none"
    /\ \E template_data \in DetectStepTemplates :
          /\ call' = [NoCall EXCEPT !.op = "detect_step", !.fragment = template_data]
          /\ out' = Returned(detect_step_duplicates(doc, template_data))
    /\ UNCHANGED doc

NextDetect == DetectJobs \/ DetectSteps

SpecDetect == InitDetect /\ [][NextDetect]_vars

-----------------------------------------------------------------------------
(* Structural equality, stated without the detector's comparison: a mapping *)
(* is the function from its keys to its values, a sequence is a tuple       *)

RECURSIVE Canon(_)
Canon(v) ==
    CASE v.t = "map" ->
             [t |-> "map", f |-> [key \in Range(dict_keys(v)) |-> Canon(dict_get(v, key))]]
      [] v.t = "seq" -> [t |-> "seq", e |-> [i \in DOMAIN v.e |-> Canon(v.e[i])]]
      [] OTHER -> v

StructurallyEqual(a, b) == Canon(a) = Canon(b)

\* the job ids a job search reported, in the order reported
ReportedJobs(found) == [i \in DOMAIN found |-> found[i].job_name]

\* C11: detect_job_duplicates reports a job of the document exactly when the
\* job is structurally equal to the job fragment; writing the keys of the
\* fragment or of the jobs in another order changes nothing, and a fragment
\* with its (distinct) steps in another order no longer matches the job.
C11_JobSoundness ==
    (call.op = "detect_job" /\ call.fragment \in DetectBodies) =>
        /\ \A id \in Range(JobOrder(doc)) :
              (id \in Range(ReportedJobs(out.doc)))
                  <=> StructurallyEqual(JobOf(doc, id), call.fragment)
        /\ ReportedJobs(out.doc) =
               SelectSeq(JobOrder(doc),
                         LAMBDA id : StructurallyEqual(JobOf(doc, id), call.fragment))
        /\ detect_job_duplicates(doc, KeysReversed(call.fragment)) = out.doc
        /\ detect_job_duplicates(KeysReversed(doc), call.fragment) =
               [i \in DOMAIN out.doc |-> out.doc[Len(out.doc) + 1 - i]]
        /\ (StepsReversed(call.fragment) /= call.fragment) =>
               \A id \in Range(ReportedJobs(out.doc)) :
                   id \notin Range(ReportedJobs(
                       detect_job_duplicates(doc, StepsReversed(call.fragment))))

\* a job written with its keys in another order than the fragment is reported,
\* next to a job with the same steps in another order that is not
C11_Witness ==
    /\ call.op = "detect_job"
    /\ call.fragment = JobScan
    /\ \E id \in Range(ReportedJobs(out.doc)) : JobOf(doc, id) = KeysReversed(JobScan)
    /\ \E id \in Range(JobOrder(doc)) :
          /\ JobOf(doc, id) = StepsReversed(JobScan)
          /\ id \notin Range(ReportedJobs(out.doc))

\* the runs of steps of the document that are structurally equal to the step
\* template: job and indices (counted from 0) of every window that equals it
EqualWindows(d, template_data) ==
    LET n == Len(template_data.e)
    IN  UNION {{[job_name |-> id, step_indices |-> [h \in 1..n |-> i + h - 1]]
                  : i \in {j \in 0..(Len(StepsOf(d, id)) - n) :
                              StructurallyEqual(Lst(SubSeq(StepsOf(d, id), j + 1, j + n)),
                                                template_data)}}
                 : id \in Range(JobOrder(d))}

\* the runs a step search reported
ReportedRuns(found) ==
    {[job_name |-> found[i].job_name, step_indices |-> found[i].step_indices]
        : i \in DOMAIN found}

\* C12: for a step fragment of n steps, detect_step_run_duplicates reports the
\* index range [i, i+n-1] of a job exactly for the windows steps[i..i+n-1]
\* that are structurally equal to the fragment, each window on its own and
\* once: [a,b,c,d] with [b,c] gives [1,2] only, [a,b,a,b] with [a,b] gives
\* [0,1] and [2,3].
C12_Windows ==
    (call.op = "detect_step" /\ call.fragment.t = "seq") =>
        /\ ReportedRuns(out.doc) = EqualWindows(doc, call.fragment)
        /\ Len(out.doc) = Cardinality(EqualWindows(doc, call.fragment))
        /\ \A i \in DOMAIN out.doc : out.doc[i].type = "steps"
        /\ (/\ JobOrder(doc) = <<"build">>
            /\ StepsOf(doc, "build") = <<StepCheckout, StepBuild, StepTest, StepScan>>
            /\ call.fragment = Lst(<<StepBuild, StepTest>>))
               => ReportedRuns(out.doc) = {[job_name |-> "build", step_indices |-> <<1, 2>>]}
        /\ (/\ JobOrder(doc) = <<"build">>
            /\ StepsOf(doc, "build") = <<StepCheckout, StepBuild, StepCheckout, StepBuild>>
            /\ call.fragment = Lst(<<StepCheckout, StepBuild>>))
               => ReportedRuns(out.doc) = {[job_name |-> "build", step_indices |-> <<0, 1>>],
                                           [job_name |-> "build", step_indices |-> <<2, 3>>]}

\* the fragment [a,b], written with the keys of b in another order, is found
\* twice in [a,b,a,b], the second time in the last window of the job
C12_Witness ==
    /\ call.op = "detect_step"
    /\ call.fragment = Lst(<<StepCheckout, KeysReversed(StepBuild)>>)
    /\ HasJob(doc, "build")
    /\ StepsOf(doc, "build") = <<StepCheckout, StepBuild, StepCheckout, StepBuild>>
    /\ Len(out.doc) >= 2
    /\ out.doc[1].step_indices = <<0, 1>>
    /\ out.doc[2].step_indices = <<2, 3>>

-----------------------------------------------------------------------------
(* DuplicateDetector.remove_job_from_workflow and remove_steps_from_job     *)

\* Python: del d[key]
dict_del(d, key) == Map(SelectSeq(d.m, LAMBDA en : en.k /= key))

\* Python: del lst[index], for an index within bounds (counted from 0, or
\* from the end when negative)
list_del(lst, index) ==
    LET at == IF index < 0 THEN Len(lst) + index ELSE index
    IN  SubSeq(lst, 1, at) \o SubSeq(lst, at + 2, Len(lst))

\* 'jobs' in workflow_data and job_name in workflow_data['jobs'], for a
\* document that is a mapping with a mapping of jobs; with any other value the
\* test is false or raises, and either way the content given is returned
has_named_job(workflow_data, job_name) ==
    /\ workflow_data.t = "map"
    /\ dict_has(workflow_data, "jobs")
    /\ dict_get(workflow_data, "jobs").t = "map"
    /\ dict_has(dict_get(workflow_data, "jobs"), job_name)

remove_job_from_workflow(workflow_content, job_name) ==
    IF has_named_job(workflow_content, job_name)
    THEN Returned(yaml_dump(dict_set(workflow_content, "jobs",
                                     dict_del(dict_get(workflow_content, "jobs"), job_name))))
    ELSE Returned(workflow_content)

\* Python: sorted(step_indices, reverse=True), for indices without repetition
RECURSIVE sorted_reverse(_)
sorted_reverse(step_indices) ==
    IF step_indices = {} THEN <<>>
    ELSE LET top == CHOOSE x \in step_indices : \A y \in step_indices : y <= x
         IN  <<top>> \o sorted_reverse(step_indices \ {top})

\* 0 <= index < len(job['steps'])
index_in_bounds(index, steps_len) == 0 <= index /\ index < steps_len

\* for index in sorted(...): if 0 <= index < len(job['steps']): del job['steps'][index]
RECURSIVE delete_steps(_, _)
delete_steps(steps, indices) ==
    IF indices = <<>> THEN steps
    ELSE delete_steps(IF index_in_bounds(Head(indices), Len(steps))
                      THEN list_del(steps, Head(indices))
                      ELSE steps,
                      Tail(indices))

remove_steps_from_job(workflow_content, job_name, step_indices) ==
    IF ~has_named_job(workflow_content, job_name)
    THEN Returned(workflow_content)
    ELSE LET jobs == dict_get(workflow_content, "jobs")
             job == dict_get(jobs, job_name)
         IN  IF job.t /= "map" \/ ~dict_has(job, "steps") \/ dict_get(job, "steps").t /= "seq"
             THEN Returned(workflow_content)
             ELSE LET steps == delete_steps(dict_get(job, "steps").e,
                                            sorted_reverse(step_indices))
                  IN  Returned(yaml_dump(
                          dict_set(workflow_content, "jobs",
                                   dict_set(jobs, job_name, dict_set(job, "steps", Lst(steps))))))

\* the sets of step indices given: below, within and beyond the bounds
StepIndexSets == SUBSET (-1..MaxSteps)

RemoveJob ==
    /\ call.op = "none"
    /\ \E job_name \in JobIds :
          /\ call' = [NoCall EXCEPT !.op = "remove_job", !.job_id = job_name]
          /\ out' = remove_job_from_workflow(doc, job_name)
    /\ UNCHANGED doc

RemoveSteps ==
    /\ call.op = "none"
    /\ \E job_name \in JobIds, step_indices \in StepIndexSets :
          /\ call' = [op |-> "remove_steps", job_id |-> job_name,
                      step_indices |-> step_indices]
          /\ out' = remove_steps_from_job(doc, job_name, step_indices)
    /\ UNCHANGED doc

NextRemove == RemoveJob \/ RemoveSteps

SpecRemove == Init /\ [][NextRemove]_vars

\* C13: when J is a job of D, remove_job(D, J) returns a document whose jobs
\* lack J while every other job is unchanged and in the same order and all
\* other top-level content is unchanged; when J is no job of D, the document
\* returned equals D.
C13_RemoveJob ==
    call.op = "remove_job" =>
        /\ out.ok
        /\ HasJob(doc, call.job_id) =>
               /\ ~HasJob(out.doc, call.job_id)
               /\ OtherJobsKept(call.job_id)
               /\ JobOrder(out.doc) = Without(JobOrder(doc), call.job_id)
               /\ TopLevelKept
        /\ ~HasJob(doc, call.job_id) => out.doc = doc

\* the steps whose index (counted from 0) is not among the indices, in order
KeptSteps(steps, step_indices) ==
    LET kept == SelectSeq([i \in 1..Len(steps) |-> i], LAMBDA i : (i - 1) \notin step_indices)
    IN  [h \in DOMAIN kept |-> steps[kept[h]]]

\* C14: remove_steps(D, job_id, step_indices) leaves in the named job the
\* original steps without those whose index is in step_indices, in their
\* original order, indices out of bounds being ignored; no other job is
\* altered or reordered; when the job is absent the document returned is D.
C14_RemoveSteps ==
    call.op = "remove_steps" =>
        /\ out.ok
        /\ ~HasJob(doc, call.job_id) => out.doc = doc
        /\ HasJob(doc, call.job_id) =>
               /\ HasJob(out.doc, call.job_id)
               /\ StepsOf(out.doc, call.job_id) =
                      KeptSteps(StepsOf(doc, call.job_id), call.step_indices)
               /\ OtherJobsKept(call.job_id)
               /\ JobOrder(out.doc) = JobOrder(doc)

-----------------------------------------------------------------------------
(* YAML text: what a workflow file says before it is loaded. A scalar has   *)
(* the style it is written in; whether a plain scalar is a string, a        *)
(* boolean or null is decided by the implicit resolvers when it is loaded.  *)

Scalar(style, cs) == [t |-> "scalar", style |-> style, s |-> cs]

Plain(cs) == Scalar("plain", cs)

Quoted(cs) == Scalar("quoted", cs)

\* a block scalar written with |
Literal(cs) == Scalar("literal", cs)

\* a mapping node: pairs of a key scalar and a value node
Mapping(pairs) == [t |-> "mapping", m |-> pairs]

Pair(key, val) == [k |-> key, v |-> val]

Sequence(items) == [t |-> "sequence", e |-> items]

\* an empty text, and a text the YAML parser rejects
EmptyText == [t |-> "empty"]

InvalidText == [t |-> "invalid"]

\* a loaded boolean
Bool(b) == [t |-> "bool", b |-> b]

\* the characters of the keys that occur in the documents of the model
KeySpelling ==
    ("on" :> <<"o","n">>) @@
    ("name" :> <<"n","a","m","e">>) @@
    ("jobs" :> <<"j","o","b","s">>) @@
    ("env" :> <<"e","n","v">>) @@
    ("MSG" :> <<"M","S","G">>) @@
    ("build" :> <<"b","u","i","l","d">>) @@
    ("test" :> <<"t","e","s","t">>) @@
    ("deploy" :> <<"d","e","p","l","o","y">>) @@
    ("scan" :> <<"s","c","a","n">>) @@
    ("steps" :> <<"s","t","e","p","s">>) @@
    ("run" :> <<"r","u","n">>) @@
    ("uses" :> <<"u","s","e","s">>) @@
    ("runs-on" :> <<"r","u","n","s","-","o","n">>) @@
    ("needs" :> <<"n","e","e","d","s">>) @@
    ("push" :> <<"p","u","s","h">>) @@
    ("pull_request" :> <<"p","u","l","l","_","r","e","q","u","e","s","t">>) @@
    ("pull_request_target" :> <<"p","u","l","l","_","r","e","q","u","e","s","t","_","t","a","r","g","e","t">>)

\* the key a loaded string is, and the keys that are no strings
key_name(cs) == CHOOSE name \in DOMAIN KeySpelling : KeySpelling[name] = cs

KeyTrue == "!!bool True"

KeyFalse == "!!bool False"

KeyNone == "!!null None"

\* the words the bool resolver of YAML 1.1 matches, and those that mean true
BoolWords ==
    {<<"y","e","s">>, <<"Y","e","s">>, <<"Y","E","S">>, <<"n","o">>,
     <<"N","o">>, <<"N","O">>, <<"t","r","u","e">>, <<"T","r","u","e">>,
     <<"T","R","U","E">>, <<"f","a","l","s","e">>, <<"F","a","l","s","e">>, <<"F","A","L","S","E">>,
     <<"o","n">>, <<"O","n">>, <<"O","N">>, <<"o","f","f">>,
     <<"O","f","f">>, <<"O","F","F">>}

TrueWords ==
    {<<"y","e","s">>, <<"Y","e","s">>, <<"Y","E","S">>, <<"t","r","u","e">>,
     <<"T","r","u","e">>, <<"T","R","U","E">>, <<"o","n">>, <<"O","n">>,
     <<"O","N">>}

NullWords == {<<>>, <<"~">>, <<"n","u","l","l">>, <<"N","u","l","l">>, <<"N","U","L","L">>}

\* the first characters the bool resolver is registered under
DefaultBoolChars == {"y", "Y", "n", "N", "t", "T", "f", "F", "o", "O"}

\* a faulty variant: the resolver table is left as PyYAML ships it
patched_bool_chars_none(chars) == chars

\* for ch in "OoYyNn": the bool resolver is removed from the entry of ch. The
\* table is the one dict every loader and dumper class inherits, so the
\* removal holds for yaml.safe_load and for the dumpers as well
patched_bool_chars(chars) == chars \ {"O", "o", "Y", "y", "N", "n"}

\* the tag the implicit resolvers give a plain scalar
resolve(cs) ==
    IF cs \in NullWords THEN "null"
    ELSE IF cs[1] \in patched_bool_chars(DefaultBoolChars) /\ cs \in BoolWords THEN "bool"
    ELSE "str"

\* the value a scalar node is loaded as
construct_scalar(node) ==
    IF node.style = "plain"
    THEN CASE resolve(node.s) = "bool" -> Bool(node.s \in TrueWords)
           [] resolve(node.s) = "null" -> Null
           [] OTHER -> Str(node.s)
    ELSE Str(node.s)

\* the dict key a loaded key is
construct_key(value) ==
    CASE value.t = "str" -> key_name(value.s)
      [] value.t = "bool" -> (IF value.b THEN KeyTrue ELSE KeyFalse)
      [] OTHER -> KeyNone

\* yaml.load / yaml.safe_load of a text the parser accepts
RECURSIVE yaml_load(_)
yaml_load(node) ==
    CASE node.t = "scalar" -> construct_scalar(node)
      [] node.t = "mapping" ->
             Map([i \in DOMAIN node.m |->
                     Entry(construct_key(construct_scalar(node.m[i].k)), yaml_load(node.m[i].v))])
      [] node.t = "sequence" -> Lst([i \in DOMAIN node.e |-> yaml_load(node.e[i])])
      [] OTHER -> Null

\* the scalar yaml.dump writes for a string: a block scalar for a string of
\* several lines, else plain unless the plain scalar would not load as a string
string_node(cs) ==
    IF \E i \in DOMAIN cs : cs[i] = "\n"
    THEN Literal(represent_str(cs))
    ELSE IF resolve(cs) = "str" THEN Plain(cs) ELSE Quoted(cs)

\* the scalar yaml.dump writes for a dict key
key_node(key) ==
    CASE key = KeyTrue -> Plain(<<"t","r","u","e">>)
      [] key = KeyFalse -> Plain(<<"f","a","l","s","e">>)
      [] key = KeyNone -> Plain(<<"n","u","l","l">>)
      [] OTHER -> string_node(KeySpelling[key])

\* yaml.dump(value, Dumper=WorkflowYAMLDumper, sort_keys=False): the text
RECURSIVE yaml_text(_)
yaml_text(v) ==
    CASE v.t = "str" -> string_node(v.s)
      [] v.t = "map" ->
             Mapping([i \in DOMAIN v.m |-> Pair(key_node(v.m[i].k), yaml_text(v.m[i].v))])
      [] v.t = "seq" -> Sequence([i \in DOMAIN v.e |-> yaml_text(v.e[i])])
      [] v.t = "bool" -> Plain(IF v.b THEN <<"t","r","u","e">> ELSE <<"f","a","l","s","e">>)
      [] OTHER -> Plain(<<"n","u","l","l">>)

-----------------------------------------------------------------------------
(* WorkflowParser.parse_workflow *)

ErrInvalidYaml == "ValueError: Invalid YAML"

ErrNotDict == "ValueError: Workflow YAML must be a dictionary"

ErrAttribute == "AttributeError"

\* Python: d.get(key, default)
dict_get_default(d, key, default) == IF dict_has(d, key) THEN dict_get(d, key) ELSE default

WorkflowJob(job_id, job_config) ==
    [name |-> dict_get_default(job_config, "name", Str(KeySpelling[job_id])),
     runs_on |-> dict_get_default(job_config, "runs-on", Str(<<"u","b","u","n","t","u","-","l","a","t","e","s","t">>)),
     steps |-> dict_get_default(job_config, "steps", Lst(<<>>)),
     needs |-> dict_get_default(job_config, "needs", Null)]

\* for job_id, job_config in jobs_dict.items(): the jobs kept, in order, as
\* pairs of the job id and the WorkflowJob
parsed_jobs(jobs_dict) ==
    LET kept == SelectSeq(jobs_dict.m, LAMBDA en : en.v.t = "map")
    IN  [i \in DOMAIN kept |-> [id |-> kept[i].k, job |-> WorkflowJob(kept[i].k, kept[i].v)]]

\* if isinstance(on_triggers, str): on_triggers = {on_triggers: {}}
normalized_triggers(on_triggers) ==
    IF on_triggers.t = "str"
    THEN Map(<<Entry(key_name(on_triggers.s), Map(<<>>))>>)
    ELSE on_triggers

\* parse_workflow from the loaded value on (lines 124-165)
parse_workflow_dict(workflow_dict) ==
    IF workflow_dict.t /= "map" THEN Raised(ErrNotDict)
    ELSE LET jobs_dict == dict_get_default(workflow_dict, "jobs", Map(<<>>))
         IN  IF jobs_dict.t /= "map" THEN Raised(ErrAttribute)
             ELSE Returned(
                    [name |-> dict_get_default(workflow_dict, "name",
                                  Str(<<"U","n","n","a","m","e","d"," ","W","o","r","k","f","l","o","w">>)),
                     on_triggers |-> normalized_triggers(
                                         dict_get_default(workflow_dict, "on", Map(<<>>))),
                     jobs |-> parsed_jobs(jobs_dict),
                     env |-> dict_get_default(workflow_dict, "env", Null)])

parse_workflow(content) ==
    IF content.t = "invalid" THEN Raised(ErrInvalidYaml)
    ELSE parse_workflow_dict(yaml_load(content))

\* WorkflowParser.has_pr_trigger
has_pr_trigger(on_triggers) ==
    CASE on_triggers.t = "map" ->
             dict_has(on_triggers, "pull_request") \/ dict_has(on_triggers, "pull_request_target")
      [] on_triggers.t = "seq" ->
             \E i \in DOMAIN on_triggers.e :
                 on_triggers.e[i] \in {Str(KeySpelling["pull_request"]),
                                       Str(KeySpelling["pull_request_target"])}
      [] OTHER -> FALSE

-----------------------------------------------------------------------------
(* The patterns of the classifier. A pattern  head.*(?:t1|t2)  is a head    *)
(* and the set of its tails; the dot matches no line break. The pattern     *)
(* npm.*(?:run.*build|build) is npm.*build and run.*tests? is run.*test,    *)
(* since re.search looks for a match anywhere in the text.                  *)

BUILD_PATTERNS ==
    <<[head |-> <<"m","v","n">>, last |-> "any",
       tails |-> {<<"c","o","m","p","i","l","e">>, <<"p","a","c","k","a","g","e">>, <<"i","n","s","t","a","l","l">>}],
      [head |-> <<"g","r","a","d","l","e">>, last |-> "any",
       tails |-> {<<"b","u","i","l","d">>, <<"a","s","s","e","m","b","l","e">>}],
      [head |-> <<"n","p","m">>, last |-> "any",
       tails |-> {<<"b","u","i","l","d">>}],
      [head |-> <<"d","o","t","n","e","t">>, last |-> "any",
       tails |-> {<<"b","u","i","l","d">>}],
      [head |-> <<"g","o">>, last |-> "any",
       tails |-> {<<"b","u","i","l","d">>}],
      [head |-> <<"c","a","r","g","o">>, last |-> "any",
       tails |-> {<<"b","u","i","l","d">>}],
      [head |-> <<"m","a","k","e">>, last |-> "space_or_end",
       tails |-> {}]>>

TEST_PATTERNS ==
    <<[head |-> <<"m","v","n">>, last |-> "any",
       tails |-> {<<"t","e","s","t">>}],
      [head |-> <<"g","r","a","d","l","e">>, last |-> "any",
       tails |-> {<<"t","e","s","t">>}],
      [head |-> <<"n","p","m">>, last |-> "any",
       tails |-> {<<"t","e","s","t">>}],
      [head |-> <<"d","o","t","n","e","t">>, last |-> "any",
       tails |-> {<<"t","e","s","t">>}],
      [head |-> <<"g","o">>, last |-> "any",
       tails |-> {<<"t","e","s","t">>}],
      [head |-> <<"c","a","r","g","o">>, last |-> "any",
       tails |-> {<<"t","e","s","t">>}],
      [head |-> <<"p","y","t","e","s","t">>, last |-> "any",
       tails |-> {}],
      [head |-> <<"j","e","s","t">>, last |-> "any",
       tails |-> {}],
      [head |-> <<"r","u","n">>, last |-> "any",
       tails |-> {<<"t","e","s","t">>}]>>

\* sub occurs in s from the position at on
occurs_at(s, sub, at) ==
    at >= 1 /\ at + Len(sub) - 1 <= Len(s) /\ SubSeq(s, at, at + Len(sub) - 1) = sub

\* re.search(pattern, text)
re_search(pattern, text) ==
    \E i \in DOMAIN text :
        /\ occurs_at(text, pattern.head, i)
        /\ LET after == i + Len(pattern.head)
           IN  /\ pattern.tails /= {} =>
                      \E tl \in pattern.tails : \E j \in after..Len(text) :
                          /\ occurs_at(text, tl, j)
                          /\ \A h \in after..(j - 1) : text[h] /= "\n"
               /\ pattern.last = "space_or_end" =>
                      (after > Len(text) \/ text[after] \in {" ", "\t", "\n", "\r"})

\* any(re.search(pattern, text) for pattern in patterns)
any_pattern(patterns, text) == \E n \in DOMAIN patterns : re_search(patterns[n], text)

-----------------------------------------------------------------------------
(* WorkflowParser._analyze_step, _analyze_job and _find_insertion_points    *)

\* Python: str(value), for a string and for None
py_str(value) == IF value.t = "str" THEN value.s ELSE <<"N","o","n","e">>

\* Python: ' '.join(texts)
RECURSIVE join_spaces(_)
join_spaces(texts) ==
    IF texts = <<>> THEN <<>>
    ELSE IF Len(texts) = 1 THEN texts[1]
    ELSE texts[1] \o <<" ">> \o join_spaces(Tail(texts))

SECURITY_TOOL_PATTERNS ==
    <<[head |-> <<"p","o","l","a","r","i","s">>, last |-> "any", tails |-> {}],
      [head |-> <<"c","o","v","e","r","i","t","y">>, last |-> "any", tails |-> {}],
      [head |-> <<"b","l","a","c","k","d","u","c","k">>, last |-> "any", tails |-> {}],
      [head |-> <<"b","l","a","c","k">>, last |-> "any", tails |-> {<<"d","u","c","k">>}],
      [head |-> <<"c","o","d","e","q","l">>, last |-> "any", tails |-> {}],
      [head |-> <<"s","n","y","k">>, last |-> "any", tails |-> {}],
      [head |-> <<"s","o","n","a","r","q","u","b","e">>, last |-> "any", tails |-> {}],
      [head |-> <<"o","w","a","s","p">>, last |-> "any", tails |-> {}]>>

\* _extract_build_tool: the label, <<>> for None
extract_build_tool(text) ==
    IF str_contains(text, <<"m","v","n">>) \/ str_contains(text, <<"m","a","v","e","n">>) THEN <<"maven">>
    ELSE IF str_contains(text, <<"g","r","a","d","l","e">>) THEN <<"gradle">>
    ELSE IF str_contains(text, <<"n","p","m">>) THEN <<"npm">>
    ELSE IF str_contains(text, <<"d","o","t","n","e","t">>) THEN <<"dotnet">>
    ELSE IF str_contains(text, <<"g","o">>) /\ str_contains(text, <<"b","u","i","l","d">>) THEN <<"go">>
    ELSE IF str_contains(text, <<"c","a","r","g","o">>) THEN <<"cargo">>
    ELSE IF str_contains(text, <<"m","a","k","e">>) THEN <<"make">>
    ELSE <<>>

\* _extract_security_tool: the label, <<>> for None
extract_security_tool(text) ==
    IF str_contains(text, <<"p","o","l","a","r","i","s">>) THEN <<"polaris">>
    ELSE IF str_contains(text, <<"c","o","v","e","r","i","t","y">>) THEN <<"coverity">>
    ELSE IF str_contains(text, <<"b","l","a","c","k","d","u","c","k">>) \/ str_contains(text, <<"b","l","a","c","k","-","d","u","c","k">>)
         THEN <<"blackduck">>
    ELSE IF str_contains(text, <<"c","o","d","e","q","l">>) THEN <<"codeql">>
    ELSE IF str_contains(text, <<"s","n","y","k">>) THEN <<"snyk">>
    ELSE IF str_contains(text, <<"s","o","n","a","r","q","u","b","e">>) \/ str_contains(text, <<"s","o","n","a","r">>)
         THEN <<"sonarqube">>
    ELSE <<>>

\* _analyze_step: the flags and the labels of one step, from its command and
\* from the action it uses; what the action says about a security tool
\* replaces what the command said
analyze_step(step) ==
    LET run == dict_get_default(step, "run", Null)
        run_text == str_lower(py_str(run))
        uses == dict_get_default(step, "uses", Null)
        uses_text == str_lower(py_str(uses))
        build == ~py_not(run) /\ any_pattern(BUILD_PATTERNS, run_text)
        scan_run == ~py_not(run) /\ any_pattern(SECURITY_TOOL_PATTERNS, run_text)
        scan_uses == ~py_not(uses) /\ any_pattern(SECURITY_TOOL_PATTERNS, uses_text)
    IN  [is_build_step |-> build,
         is_test_step |-> ~py_not(run) /\ any_pattern(TEST_PATTERNS, run_text),
         is_security_scan |-> scan_run \/ scan_uses,
         build_tool |-> IF build THEN extract_build_tool(run_text) ELSE <<>>,
         security_tool |-> IF scan_uses THEN extract_security_tool(uses_text)
                           ELSE IF scan_run THEN extract_security_tool(run_text)
                           ELSE <<>>]

\* _analyze_job: a job has build (test) steps when one of its steps is one
analyze_job(job) ==
    [step_count |-> Len(job.steps.e),
     has_build_steps |-> \E i \in DOMAIN job.steps.e : analyze_step(job.steps.e[i]).is_build_step,
     has_test_steps |-> \E i \in DOMAIN job.steps.e : analyze_step(job.steps.e[i]).is_test_step]

\* ' '.join([str(s.get('run', '')) for s in job.steps]).lower()
joined_run_text(job) ==
    str_lower(join_spaces([i \in DOMAIN job.steps.e |->
                              py_str(dict_get_default(job.steps.e[i], "run", Str(<<>>)))]))

\* for job_id, job in structure.jobs.items(): the job whose text matched
\* last, found being the one matched so far (None: <<>>)
RECURSIVE anchor_scan(_, _, _)
anchor_scan(jobs, patterns, found) ==
    IF jobs = <<>> THEN found
    ELSE anchor_scan(Tail(jobs), patterns,
                     IF any_pattern(patterns, joined_run_text(Head(jobs).job))
                     THEN <<Head(jobs).id>>
                     ELSE found)

\* a faulty variant: the first job is taken for the last one
last_job_first(jobs) == IF jobs = <<>> THEN <<>> ELSE <<jobs[1].id>>

\* last_job after the loop
last_job_of(jobs) == IF jobs = <<>> THEN <<>> ELSE <<jobs[Len(jobs)].id>>

InsertionPoint(location, after_job) == [location |-> location, after_job |-> after_job]

\* a faulty variant: the test point is added whenever a test job was found
after_test_due_always(test_job, build_job) == truthy(test_job)

\* if test_job and test_job != build_job
after_test_due(test_job, build_job) == truthy(test_job) /\ test_job /= build_job

\* the fallback: at the end, after the last job or as the first job
end_points(last_job) ==
    IF truthy(last_job)
    THEN <<InsertionPoint("end", last_job)>>
    ELSE <<InsertionPoint("end", <<>>)>>

find_insertion_points(structure) ==
    LET build_job == anchor_scan(structure.jobs, BUILD_PATTERNS, <<>>)
        test_job == anchor_scan(structure.jobs, TEST_PATTERNS, <<>>)
        last_job == last_job_of(structure.jobs)
    IN  (IF truthy(build_job) THEN <<InsertionPoint("after_build", build_job)>> ELSE <<>>)
        \o (IF after_test_due(test_job, build_job)
            THEN <<InsertionPoint("after_test", test_job)>>
            ELSE <<>>)
        \o end_points(last_job)

\* analyze_workflow from the parsed structure on (lines 186-245)
analysis_of(structure) ==
    LET jobs == [i \in DOMAIN structure.jobs |->
                    [id |-> structure.jobs[i].id, info |-> analyze_job(structure.jobs[i].job)]]
    IN  [has_jobs |-> Len(structure.jobs) > 0,
         job_count |-> Len(structure.jobs),
         jobs |-> jobs,
         has_build_job |-> \E i \in DOMAIN jobs : jobs[i].info.has_build_steps,
         has_test_job |-> \E i \in DOMAIN jobs : jobs[i].info.has_test_steps,
         triggers |-> structure.on_triggers,
         has_pr_trigger |-> has_pr_trigger(structure.on_triggers),
         insertion_points |-> find_insertion_points(structure)]

\* analyze_workflow: an error of parse_workflow is passed on
analyze_workflow_dict(workflow_dict) ==
    LET parsed == parse_workflow_dict(workflow_dict)
    IN  IF parsed.ok THEN Returned(analysis_of(parsed.doc)) ELSE parsed

analyze_workflow(content) ==
    LET parsed == parse_workflow(content)
    IN  IF parsed.ok THEN Returned(analysis_of(parsed.doc)) ELSE parsed

-----------------------------------------------------------------------------
(* The operations as they are called: on the text of a workflow file        *)

ErrYaml == "yaml.YAMLError"

ErrType == "TypeError"

\* the text an operation returns for the tree it dumps
returned_text(result) == IF result.ok THEN Returned(yaml_text(result.doc)) ELSE result

\* merge_job_into_workflow(workflow_content, job_yaml, job_id, insert_after):
\* a text that is no mapping makes the jobs assignment raise TypeError
merge_job_text(workflow_content, job_yaml, job_id, insert_after) ==
    IF workflow_content.t = "invalid" \/ job_yaml.t = "invalid" THEN Raised(ErrYaml)
    ELSE IF yaml_load(workflow_content).t /= "map" THEN Raised(ErrType)
    ELSE returned_text(merge_job_into_workflow(yaml_load(workflow_content),
                                               yaml_load(job_yaml), job_id, insert_after))

\* insert_step_into_job(workflow_content, step_yaml, target_job, position):
\* 'jobs' not in workflow_dict is true of a list and of a string without
\* "jobs" in it, and raises TypeError for None and, one step later, for a
\* string with "jobs" in it
insert_step_text(workflow_content, step_yaml, target_job, insert_position) ==
    IF workflow_content.t = "invalid" \/ step_yaml.t = "invalid" THEN Raised(ErrYaml)
    ELSE LET workflow_dict == yaml_load(workflow_content)
             step_data == yaml_load(step_yaml)
         IN  IF workflow_dict.t = "map"
             THEN returned_text(insert_step_into_job(workflow_dict, step_data,
                                                     target_job, insert_position))
             ELSE IF step_data.t \notin {"map", "seq"} THEN Raised(ErrStepShape)
             ELSE IF workflow_dict.t = "seq" THEN Raised(ErrJobNotFound)
             ELSE IF workflow_dict.t = "str" /\ ~str_contains(workflow_dict.s, KeySpelling["jobs"])
                  THEN Raised(ErrJobNotFound)
             ELSE Raised(ErrType)

\* remove_job_from_workflow(workflow_content, job_name): every exception is
\* caught and the text given is returned
remove_job_text(workflow_content, job_name) ==
    IF workflow_content.t = "invalid" THEN Returned(workflow_content)
    ELSE IF has_named_job(yaml_load(workflow_content), job_name)
    THEN returned_text(remove_job_from_workflow(yaml_load(workflow_content), job_name))
    ELSE Returned(workflow_content)

\* the named job is a mapping with a list of steps
has_step_list(workflow_data, job_name) ==
    /\ has_named_job(workflow_data, job_name)
    /\ dict_get(dict_get(workflow_data, "jobs"), job_name).t = "map"
    /\ dict_has(dict_get(dict_get(workflow_data, "jobs"), job_name), "steps")
    /\ dict_get(dict_get(dict_get(workflow_data, "jobs"), job_name), "steps").t = "seq"

\* remove_steps_from_job(workflow_content, job_name, step_indices), likewise
remove_steps_text(workflow_content, job_name, step_indices) ==
    IF workflow_content.t = "invalid" THEN Returned(workflow_content)
    ELSE IF has_step_list(yaml_load(workflow_content), job_name)
    THEN returned_text(remove_steps_from_job(yaml_load(workflow_content), job_name,
                                             step_indices))
    ELSE Returned(workflow_content)

\* normalize_yaml_content: the loaded value, {} when loading raises
normalize_yaml_content(content) ==
    IF content.t = "invalid" THEN Map(<<>>) ELSE yaml_load(content)

detect_job_duplicates_text(workflow_content, template_content) ==
    Returned(detect_job_duplicates(normalize_yaml_content(workflow_content),
                                   normalize_yaml_content(template_content)))

detect_step_duplicates_text(workflow_content, template_content) ==
    Returned(detect_step_duplicates(normalize_yaml_content(workflow_content),
                                    normalize_yaml_content(template_content)))

\* yaml.load followed by yaml.dump with WorkflowYAMLDumper: the text written
\* for the document a text was loaded as
serialize_text(content) ==
    IF content.t = "invalid" THEN Raised(ErrYaml)
    ELSE Returned(yaml_text(yaml_load(content)))

-----------------------------------------------------------------------------
(* Workflow texts, and the state machine of the operations on a text        *)

\* largest number of events a trigger declares
MaxEvents == 2

Events == {KeySpelling["push"], KeySpelling["pull_request"], KeySpelling["pull_request_target"]}

\* the sequences of 1..n distinct events
EventSeqs(n) ==
    UNION {{q \in [1..len -> Events] : \A i, j \in 1..len : i /= j => q[i] /= q[j]}
             : len \in 1..n}

\* what is written under on: one event, a list of events, or a mapping from
\* events to nothing or to an empty configuration
TriggerTexts ==
    {Plain(e) : e \in Events}
    \cup {Sequence([i \in DOMAIN q |-> Plain(q[i])]) : q \in EventSeqs(MaxEvents)}
    \cup UNION {{Mapping([i \in DOMAIN q |-> Pair(Plain(q[i]), conf)])
                   : conf \in {Plain(<<>>), Mapping(<<>>)}} : q \in EventSeqs(MaxEvents)}

\* the key on, written bare and written in quotes
OnKeys == {Plain(KeySpelling["on"]), Quoted(KeySpelling["on"])}

\* commands of the one step: a plain word, a block of two lines whose first
\* line ends in a blank, and a quoted word that spells a boolean
CommandTexts ==
    {Plain(<<"m","a","k","e">>), Literal(<<"a"," ","\n","b">>), Quoted(<<"t","r","u","e">>)}

JobsText(command) ==
    Pair(Plain(KeySpelling["jobs"]),
         Mapping(<<Pair(Plain(KeySpelling["build"]),
                        Mapping(<<Pair(Plain(KeySpelling["runs-on"]), Plain(<<"u","b","u","n","t","u">>)),
                                  Pair(Plain(KeySpelling["steps"]),
                                       Sequence(<<Mapping(<<Pair(Plain(KeySpelling["run"]),
                                                                command)>>)>>))>>))>>))

NameText == Pair(Plain(KeySpelling["name"]), Plain(<<"C","I">>))

\* texts that are a workflow: name, on (or no on) and jobs
WellFormedTexts ==
    {Mapping(<<NameText>> \o trigger \o <<JobsText(command)>>)
        : trigger \in {<<>>} \cup {<<Pair(key, events)>> : key \in OnKeys, events \in TriggerTexts},
          command \in CommandTexts}

\* texts that are no mapping: rejected by the YAML parser, empty, a list, a word
MalformedTexts == {InvalidText, EmptyText, Sequence(<<Plain(<<"a">>)>>), Plain(<<"t","e","x","t">>)}

Texts == WellFormedTexts \cup MalformedTexts

\* the fragments given with a text
JobText ==
    Mapping(<<Pair(Plain(KeySpelling["runs-on"]), Plain(<<"u","b","u","n","t","u">>)),
              Pair(Plain(KeySpelling["steps"]),
                   Sequence(<<Mapping(<<Pair(Plain(KeySpelling["uses"]), Plain(<<"p","o","l","a","r","i","s">>))>>)>>))>>)

StepText == Sequence(<<Mapping(<<Pair(Plain(KeySpelling["run"]), Plain(<<"m","a","k","e">>))>>)>>)

InitText ==
    /\ doc \in Texts
    /\ call = NoCall
    /\ out = Raised("")

Parse ==
    /\ call.op = "none"
    /\ call' = [NoCall EXCEPT !.op = "parse"]
    /\ out' = parse_workflow(doc)
    /\ UNCHANGED doc

Analyze ==
    /\ call.op = "none"
    /\ call' = [NoCall EXCEPT !.op = "analyze"]
    /\ out' = analyze_workflow(doc)
    /\ UNCHANGED doc

Serialize ==
    /\ call.op = "none"
    /\ call' = [NoCall EXCEPT !.op = "serialize"]
    /\ out' = serialize_text(doc)
    /\ UNCHANGED doc

MergeJobText ==
    /\ call.op = "none"
    /\ \E job_id \in {"scan", "build"}, insert_after \in {<<>>, <<"build">>} :
          /\ call' = [NoCall EXCEPT !.op = "merge_job", !.fragment = JobText,
                                    !.job_id = job_id, !.insert_after = insert_after]
          /\ out' = merge_job_text(doc, JobText, job_id, insert_after)
    /\ UNCHANGED doc

InsertStepText ==
    /\ call.op = "none"
    /\ \E target_job \in {"build", "test"}, position \in Positions :
          /\ call' = [NoCall EXCEPT !.op = "insert_step", !.fragment = StepText,
                                    !.target_job = target_job,
                                    !.insert_position = position]
          /\ out' = insert_step_text(doc, StepText, target_job, position)
    /\ UNCHANGED doc

RemoveJobText ==
    /\ call.op = "none"
    /\ \E job_name \in {"build", "test"} :
          /\ call' = [NoCall EXCEPT !.op = "remove_job", !.job_id = job_name]
          /\ out' = remove_job_text(doc, job_name)
    /\ UNCHANGED doc

RemoveStepsText ==
    /\ call.op = "none"
    /\ \E job_name \in {"build", "test"}, step_indices \in SUBSET (0..1) :
          /\ call' = [op |-> "remove_steps", job_id |-> job_name,
                      step_indices |-> step_indices]
          /\ out' = remove_steps_text(doc, job_name, step_indices)
    /\ UNCHANGED doc

DetectJobsText ==
    /\ call.op = "none"
    /\ call' = [NoCall EXCEPT !.op = "detect_job", !.fragment = JobText]
    /\ out' = detect_job_duplicates_text(doc, JobText)
    /\ UNCHANGED doc

DetectStepsText ==
    /\ call.op = "none"
    /\ call' = [NoCall EXCEPT !.op = "detect_step", !.fragment = StepText]
    /\ out' = detect_step_duplicates_text(doc, StepText)
    /\ UNCHANGED doc

NextText ==
    \/ Parse \/ Analyze \/ Serialize
    \/ MergeJobText \/ InsertStepText
    \/ RemoveJobText \/ RemoveStepsText
    \/ DetectJobsText \/ DetectStepsText

SpecText == InitText /\ [][NextText]_vars

\* the top-level pairs of a text whose key is spelled on, bare or in quotes
OnPairs(text) == SelectSeq(text.m, LAMBDA pr : pr.k.s = KeySpelling["on"])

\* the events a text declares under on, read off the text
DeclaredEvents(text) ==
    IF OnPairs(text) = <<>> THEN {}
    ELSE LET events == OnPairs(text)[1].v
         IN  CASE events.t = "scalar" -> {events.s}
               [] events.t = "sequence" -> {events.e[i].s : i \in DOMAIN events.e}
               [] events.t = "mapping" -> {events.m[i].k.s : i \in DOMAIN events.m}

\* the events of loaded triggers: the keys of a mapping, the items of a list
TriggerEvents(on_triggers) ==
    CASE on_triggers.t = "map" -> {KeySpelling[on_triggers.m[i].k] : i \in DOMAIN on_triggers.m}
      [] on_triggers.t = "seq" -> {on_triggers.e[i].s : i \in DOMAIN on_triggers.e}
      [] OTHER -> {}

PullRequestEvents == {KeySpelling["pull_request"], KeySpelling["pull_request_target"]}

\* the operations that return the text of a document
Serializing == {"serialize", "merge_job", "insert_step", "remove_job", "remove_steps"}

\* C15: the key on is never loaded as a boolean: the triggers parse returns
\* for a text are exactly the events declared under on, the analysis reports
\* has_pr_trigger exactly when pull_request or pull_request_target is among
\* them, and every text an operation returns has the key as the string on.
C15_OnKept ==
    doc \in WellFormedTexts =>
        /\ call.op = "parse" =>
               /\ out.ok
               /\ TriggerEvents(out.doc.on_triggers) = DeclaredEvents(doc)
        /\ call.op = "analyze" =>
               /\ out.ok
               /\ TriggerEvents(out.doc.triggers) = DeclaredEvents(doc)
               /\ out.doc.has_pr_trigger <=> (DeclaredEvents(doc) \cap PullRequestEvents /= {})
        /\ (call.op \in Serializing /\ out.ok /\ OnPairs(doc) /= <<>>) =>
               /\ Len(OnPairs(out.doc)) = 1
               /\ dict_has(yaml_load(out.doc), "on")
               /\ ~dict_has(yaml_load(out.doc), KeyTrue)
               /\ TriggerEvents(normalized_triggers(dict_get(yaml_load(out.doc), "on")))
                      = DeclaredEvents(doc)

\* a text with a bare on key and the list [push, pull_request] was analysed
C15_Witness ==
    /\ call.op = "analyze"
    /\ doc \in WellFormedTexts
    /\ OnPairs(doc) /= <<>>
    /\ OnPairs(doc)[1].k.style = "plain"
    /\ OnPairs(doc)[1].v = Sequence(<<Plain(KeySpelling["push"]),
                                       Plain(KeySpelling["pull_request"])>>)
    /\ out.ok
    /\ out.doc.has_pr_trigger

\* C16: the text written for a document parse produced is parsed back to a
\* document structurally equal to it: job order, step order, the on key and
\* every scalar, commands of several lines included, are what they were.
C16_RoundTrip ==
    (call.op = "serialize" /\ doc \in WellFormedTexts) =>
        /\ out.ok
        /\ StructurallyEqual(yaml_load(out.doc), yaml_load(doc))
        /\ JobOrder(yaml_load(out.doc)) = JobOrder(yaml_load(doc))

\* the operations the claim about malformed text names
EngineOperations ==
    {"parse", "merge_job", "insert_step", "remove_job", "remove_steps",
     "detect_job", "detect_step"}

\* C17: given a text that is no valid structured mapping, each of parse,
\* merge_job, insert_step, remove_job, remove_steps and the detect operations
\* fails with an error and returns no normal result.
C17_ErrorsSurfaced ==
    (doc \in MalformedTexts /\ call.op \in EngineOperations) => ~out.ok

-----------------------------------------------------------------------------
(* Documents given to the planner, and its state machine                    *)

\* two steps none of which is a build step, whose commands joined by a blank
\* match the build pattern npm.*build
StepNpmCi == Map(<<Entry("run", Str(<<"n","p","m"," ","c","i">>))>>)

StepDocker == Map(<<Entry("run", Str(<<"d","o","c","k","e","r"," ","b","u","i","l","d"," ",".">>))>>)

JobWithSteps(steps) == Map(<<RunsOn, Entry("steps", Lst(steps))>>)

\* job bodies: a build job, a test job, a job that is both, a job that is
\* neither, a job read as a build job only through its joined commands, and
\* a job without steps
PlanBodies ==
    {JobWithSteps(<<StepBuild>>), JobWithSteps(<<StepTest>>),
     JobWithSteps(<<StepBuild, StepTest>>), JobWithSteps(<<StepCheckout>>),
     JobWithSteps(<<StepNpmCi, StepDocker>>), Map(<<RunsOn>>)}

\* documents of up to MaxJobs jobs, and a document without a jobs section
PlanDocuments ==
    UNION {{WorkflowOf(TopPlain, [i \in DOMAIN q |-> Entry(q[i], b[i])])
              : b \in [DOMAIN q -> PlanBodies]} : q \in IdSeqs(MaxJobs)}
    \cup {Map(TopPlain)}

InitPlan ==
    /\ doc \in PlanDocuments
    /\ call = NoCall
    /\ out = Raised("")

Plan ==
    /\ call.op = "none"
    /\ call' = [NoCall EXCEPT !.op = "plan"]
    /\ out' = analyze_workflow_dict(doc)
    /\ UNCHANGED doc

NextPlan == Plan

SpecPlan == InitPlan /\ [][NextPlan]_vars

\* the insertion points returned, and their kinds in order
Points == out.doc.insertion_points

Kinds == [i \in DOMAIN Points |-> Points[i].location]

\* the jobs of the analysis the classifier found a build (test) step in
BuildClassified == {i \in DOMAIN out.doc.jobs : out.doc.jobs[i].info.has_build_steps}

TestClassified == {i \in DOMAIN out.doc.jobs : out.doc.jobs[i].info.has_test_steps}

\* the largest number of a non-empty set
Last(indices) == CHOOSE i \in indices : \A j \in indices : j <= i

\* C18: when a job of the document is build-classified, the first insertion
\* point is after-build-job anchored at the last build-classified job in
\* document order; for the single job build with a build step and a test
\* step it is after-build-job anchored at build.
C18_BuildAnchor ==
    (call.op = "plan" /\ out.ok /\ BuildClassified /= {}) =>
        /\ Points /= <<>>
        /\ Points[1] = InsertionPoint("after_build", <<out.doc.jobs[Last(BuildClassified)].id>>)

\* the anchor of the after-build-job point, <<>> when there is none
BuildAnchor ==
    IF \E n \in DOMAIN Points : Points[n].location = "after_build"
    THEN Points[CHOOSE n \in DOMAIN Points : Points[n].location = "after_build"].after_job
    ELSE <<>>

\* the point is in the list, after every after-build-job point
EmittedAfterBuild(point) ==
    \E n \in DOMAIN Points :
        /\ Points[n] = point
        /\ \A m \in DOMAIN Points : Points[m].location = "after_build" => m < n

\* the test-classified jobs other than the build anchor
TestCandidates == {i \in TestClassified : <<out.doc.jobs[i].id>> /= BuildAnchor}

TestMatching ==
    LET jobs == parse_workflow_dict(doc).doc.jobs
    IN  {i \in DOMAIN jobs : any_pattern(TEST_PATTERNS, joined_run_text(jobs[i].job))}

KindOrder == <<"after_build", "after_test", "end">>

Rank(kind) == CHOOSE n \in DOMAIN KindOrder : KindOrder[n] = kind

\* C20: the list of insertion points is never empty, holds at most one point
\* of each kind in the order after-build-job, after-test-job, end-of-document,
\* and ends with an end-of-document point anchored at the last job of the
\* document, or without anchor when the document has no jobs.
C20_PointList ==
    (call.op = "plan" /\ out.ok) =>
        /\ Points /= <<>>
        /\ \A i \in DOMAIN Points : Kinds[i] \in Range(KindOrder)
        /\ \A i, j \in DOMAIN Points : i < j => Rank(Kinds[i]) < Rank(Kinds[j])
        /\ Points[Len(Points)] =
               InsertionPoint("end", IF JobOrder(doc) = <<>>
                                     THEN <<>>
                                     ELSE <<JobOrder(doc)[Len(JobOrder(doc))]>>)

\* all three kinds of point were returned for a document of two jobs
C20_Witness ==
    /\ call.op = "plan"
    /\ out.ok
    /\ Len(JobOrder(doc)) = 2
    /\ Kinds = KindOrder
    /\ Points[3].after_job = <<JobOrder(doc)[2]>>

-----------------------------------------------------------------------------
(* DuplicateDetector.detect_workflow_duplicate and detect_all_duplicates: a   *)
(* catalog is the list of templates, each with its id, its type and the value *)
(* its content loads to (Null for a template without content)                 *)

\* longest catalog
MaxCatalog == 3

Template(template_id, template_type, content) ==
    [id |-> template_id, template_type |-> template_type, content |-> content]

\* the match returned for a whole workflow, <<>> for None
detect_workflow_duplicate(workflow_data, template_data, template_id) ==
    IF py_not(workflow_data) \/ py_not(template_data) THEN <<>>
    ELSE IF compare_yaml_structures(workflow_data, template_data)
         THEN <<[type |-> "complete_workflow", template_id |-> template_id]>>
         ELSE <<>>

\* the matches of one template, each with the template's id
from_template(duplicates, template_id) ==
    [i \in DOMAIN duplicates |-> [template_id |-> template_id, match |-> duplicates[i]]]

\* results before the loop
no_results ==
    [has_duplicates |-> FALSE, complete_workflow_duplicate |-> <<>>,
     job_duplicates |-> <<>>, step_duplicates |-> <<>>]

\* a faulty variant: the loop goes on after a whole-workflow match
left_after_break_all(templates) == templates

\* break: none of the templates that follow is looked at
left_after_break(templates) == <<>>

\* for template in templates
RECURSIVE scan_templates(_, _, _)
scan_templates(workflow_data, templates, results) ==
    IF templates = <<>> THEN results
    ELSE LET template == Head(templates)
             rest == Tail(templates)
         IN  IF py_not(template.content)
             THEN scan_templates(workflow_data, rest, results)
             ELSE IF template.template_type = "workflow"
             THEN LET workflow_dup ==
                          detect_workflow_duplicate(workflow_data, template.content, template.id)
                  IN  IF workflow_dup /= <<>>
                      THEN scan_templates(workflow_data, left_after_break(rest),
                                          [results EXCEPT !.complete_workflow_duplicate = workflow_dup,
                                                          !.has_duplicates = TRUE])
                      ELSE scan_templates(workflow_data, rest, results)
             ELSE IF template.template_type = "job"
             THEN LET job_dups == detect_job_duplicates(workflow_data, template.content)
                  IN  scan_templates(workflow_data, rest,
                          IF job_dups /= <<>>
                          THEN [results EXCEPT !.job_duplicates = @ \o from_template(job_dups, template.id),
                                               !.has_duplicates = TRUE]
                          ELSE results)
             ELSE IF template.template_type = "step"
             THEN LET step_dups == detect_step_duplicates(workflow_data, template.content)
                  IN  scan_templates(workflow_data, rest,
                          IF step_dups /= <<>>
                          THEN [results EXCEPT !.step_duplicates = @ \o from_template(step_dups, template.id),
                                               !.has_duplicates = TRUE]
                          ELSE results)
             ELSE scan_templates(workflow_data, rest, results)

detect_all_duplicates(workflow_data, templates) ==
    scan_templates(workflow_data, templates, no_results)

-----------------------------------------------------------------------------
(* Documents and catalogs given to detect_all_duplicates, and its state machine *)

DocScan == WorkflowOf(TopPlain, <<Entry("scan", JobScan)>>)

DocBuildScan ==
    WorkflowOf(TopPlain,
               <<Entry("build", Map(<<RunsOn, Entry("steps", Lst(<<StepCheckout, StepBuild>>))>>)),
                 Entry("scan", JobScan)>>)

DocCheckout == WorkflowOf(TopPlain, <<Entry("scan", JobScanCheckout)>>)

CatalogDocuments == {DocScan, DocBuildScan, DocCheckout, Map(<<>>)}

\* what a template of the catalog may be: its type and its content
TemplateKinds ==
    {<<"workflow", DocScan>>, <<"workflow", KeysReversed(DocScan)>>,
     <<"workflow", DocBuildScan>>, <<"workflow", Null>>,
     <<"job", JobScan>>, <<"job", JobScanCheckout>>,
     <<"step", Lst(<<StepScan, StepReport>>)>>, <<"step", Lst(<<StepCheckout>>)>>,
     <<"action", JobScan>>}

\* the catalogs of up to MaxCatalog templates; a template's id is its position
Catalogs ==
    UNION {{[i \in 1..len |-> Template(i, kinds[i][1], kinds[i][2])]
              : kinds \in [1..len -> TemplateKinds]} : len \in 0..MaxCatalog}

InitCatalog ==
    /\ doc \in CatalogDocuments
    /\ call = NoCall
    /\ out = Raised("")

DetectAll ==
    /\ call.op = "none"
    /\ \E templates \in Catalogs :
          /\ call' = [NoCall EXCEPT !.op = "detect_all", !.fragment = templates]
          /\ out' = Returned(detect_all_duplicates(doc, templates))
    /\ UNCHANGED doc

NextCatalog == DetectAll

SpecCatalog == InitCatalog /\ [][NextCatalog]_vars

\* a value that holds nothing: no content, or an empty collection
Blank(v) == v \in {Null, Map(<<>>), Lst(<<>>), Str(<<>>)}

\* the positions of the catalog whose template is of document scope and is a
\* duplicate of the whole document
WholeMatches(catalog) ==
    {i \in DOMAIN catalog :
        /\ catalog[i].template_type = "workflow"
        /\ ~Blank(catalog[i].content)
        /\ ~Blank(doc)
        /\ StructurallyEqual(doc, catalog[i].content)}

\* the position the scan stops at: past the end when nothing matches
StopsAt(catalog) ==
    IF WholeMatches(catalog) = {} THEN Len(catalog) + 1
    ELSE CHOOSE i \in WholeMatches(catalog) : \A j \in WholeMatches(catalog) : i <= j

\* the matches of a list that come from the template at position i
MatchesFrom(duplicates, i) == SelectSeq(duplicates, LAMBDA d : d.template_id = i)

\* what the template at position i contributes when it is evaluated
Contribution(catalog, i, scope) ==
    IF catalog[i].template_type /= scope \/ Blank(catalog[i].content) THEN <<>>
    ELSE IF scope = "job"
         THEN from_template(detect_job_duplicates(doc, catalog[i].content), i)
         ELSE from_template(detect_step_duplicates(doc, catalog[i].content), i)

InCatalogOrder(duplicates) ==
    \A a, b \in DOMAIN duplicates : a < b => duplicates[a].template_id <= duplicates[b].template_id

\* C21: detect_all_duplicates goes through the catalog in order and stops at
\* the first document-scope template that duplicates the whole document: that
\* template is the whole-document match reported, the job and step matches are
\* those of the templates before it, in catalog order, and no template after
\* it contributes a match; when no document-scope template matches, every job
\* and step template contributes its matches.
C21_CatalogScan ==
    call.op = "detect_all" =>
        LET catalog == call.fragment
            stop == StopsAt(catalog)
        IN  /\ out.doc.complete_workflow_duplicate =
                   (IF stop > Len(catalog) THEN <<>>
                    ELSE <<[type |-> "complete_workflow", template_id |-> stop]>>)
            /\ InCatalogOrder(out.doc.job_duplicates)
            /\ InCatalogOrder(out.doc.step_duplicates)
            /\ \A i \in DOMAIN catalog :
                  /\ MatchesFrom(out.doc.job_duplicates, i) =
                         (IF i < stop THEN Contribution(catalog, i, "job") ELSE <<>>)
                  /\ MatchesFrom(out.doc.step_duplicates, i) =
                         (IF i < stop THEN Contribution(catalog, i, "step") ELSE <<>>)

\* a job template matched, then a whole-document match stopped the scan before
\* a job template that has a match in the document
C21_Witness ==
    /\ call.op = "detect_all"
    /\ Len(call.fragment) = 3
    /\ StopsAt(call.fragment) = 2
    /\ Contribution(call.fragment, 1, "job") /= <<>>
    /\ Contribution(call.fragment, 3, "job") /= <<>>
    /\ out.doc.complete_workflow_duplicate /= <<>>
    /\ Len(out.doc.job_duplicates) = Len(Contribution(call.fragment, 1, "job"))

-----------------------------------------------------------------------------
(* The text yaml.dump writes with WorkflowYAMLDumper (block style, indent=2, *)
(* sequences indented under their key, sort_keys=False), as the list of its  *)
(* lines. A line is a string, without its line break.                        *)

Spaces(n) == [i \in 1..n |-> " "]

\* the lines with n blanks in front of each, an empty line staying empty
indented(lines, n) ==
    [i \in DOMAIN lines |-> IF lines[i] = <<>> THEN <<>> ELSE Spaces(n) \o lines[i]]

\* a string written as a literal block: the indicator | keeps the single final
\* line break of the string, |- says that there is none
block_scalar(s) ==
    IF s[Len(s)] = "\n"
    THEN [inline |-> <<" ","|">>, below |-> str_split(SubSeq(s, 1, Len(s) - 1))]
    ELSE [inline |-> <<" ","|","-">>, below |-> str_split(s)]

\* what follows "key:" or "-" on its line, and the lines below it as they
\* would be written from column 0
RECURSIVE emit_value(_)
RECURSIVE emit_mapping(_)
RECURSIVE emit_sequence(_)
emit_value(v) ==
    CASE v.t = "str" ->
             IF \E i \in DOMAIN v.s : v.s[i] = "\n"
             THEN block_scalar(represent_str(v.s))
             ELSE IF v.s = <<>> THEN [inline |-> <<" ","'","'">>, below |-> <<>>]
             ELSE [inline |-> <<" ">> \o v.s, below |-> <<>>]
      [] v.t = "null" -> [inline |-> <<" ","n","u","l","l">>, below |-> <<>>]
      [] v.t = "bool" -> [inline |-> IF v.b THEN <<" ","t","r","u","e">> ELSE <<" ","f","a","l","s","e">>, below |-> <<>>]
      [] v.t = "map" ->
             IF v.m = <<>> THEN [inline |-> <<" ","{","}">>, below |-> <<>>]
             ELSE [inline |-> <<>>, below |-> emit_mapping(v.m)]
      [] v.t = "seq" ->
             IF v.e = <<>> THEN [inline |-> <<" ","[","]">>, below |-> <<>>]
             ELSE [inline |-> <<>>, below |-> emit_sequence(v.e)]

\* the lines of a block mapping that starts in column 0
emit_mapping(entries) ==
    IF entries = <<>> THEN <<>>
    ELSE LET written == emit_value(Head(entries).v)
         IN  <<KeySpelling[Head(entries).k] \o <<":">> \o written.inline>>
             \o indented(written.below, 2) \o emit_mapping(Tail(entries))

\* the lines of a block sequence that starts in column 0: the first line of an
\* item follows the dash, its other lines are two columns in
emit_sequence(items) ==
    IF items = <<>> THEN <<>>
    ELSE LET item == Head(items)
             lines == IF item.t = "map" /\ item.m /= <<>>
                      THEN emit_mapping(item.m)
                      ELSE IF item.t = "seq" /\ item.e /= <<>>
                      THEN emit_sequence(item.e)
                      ELSE <<Tail(emit_value(item).inline)>> \o emit_value(item).below
         IN  <<<<"-", " ">> \o Head(lines)>> \o indented(Tail(lines), 2)
             \o emit_sequence(Tail(items))

\* yaml.dump(...).split('\n'): the lines of the text, and the empty string
\* after its last line break
dump_lines(v) ==
    (CASE v.t = "map" /\ v.m /= <<>> -> emit_mapping(v.m)
       [] v.t = "seq" /\ v.e /= <<>> -> emit_sequence(v.e)
       [] OTHER -> <<Tail(emit_value(v).inline)>> \o emit_value(v).below)
    \o <<<<>>>>

-----------------------------------------------------------------------------
(* WorkflowParser.add_enhancement_comments and add_step_enhancement_comments: *)
(* texts are lists of lines, as split('\n') gives them                        *)

\* Python: line.strip()
RECURSIVE str_lstrip(_)
str_lstrip(s) ==
    IF s /= <<>> /\ s[1] \in Whitespace THEN str_lstrip(Tail(s)) ELSE s

str_strip(s) == str_lstrip(str_rstrip(s))

\* Python: s.startswith(prefix)
starts_with(s, prefix) == Len(s) >= Len(prefix) /\ SubSeq(s, 1, Len(prefix)) = prefix

\* the position of the first occurrence of sub in s, 0 when there is none
find(s, sub) ==
    IF str_contains(s, sub)
    THEN CHOOSE i \in 1..(Len(s) - Len(sub) + 1) :
             /\ SubSeq(s, i, i + Len(sub) - 1) = sub
             /\ \A j \in 1..(i - 1) : SubSeq(s, j, j + Len(sub) - 1) /= sub
    ELSE 0

\* Python: s.split(sep)[0]
split_first(s, sep) == IF find(s, sep) = 0 THEN s ELSE SubSeq(s, 1, find(s, sep) - 1)

\* Python: s.split(sep)[1], for s that holds sep
split_second(s, sep) ==
    split_first(SubSeq(s, find(s, sep) + Len(sep), Len(s)), sep)

\* a faulty variant: a blank line ends the block of comments
comment_ends_at_blank(line) == str_strip(line) = <<>>

\* elif line.strip(): break (the line is neither a comment nor blank)
comment_ends_at(line) == str_strip(line) /= <<>>

\* the comment lines at the top of the original text
RECURSIVE original_comments(_)
original_comments(original_lines) ==
    IF original_lines = <<>> THEN <<>>
    ELSE IF starts_with(str_strip(Head(original_lines)), <<"#">>)
         THEN <<Head(original_lines)>> \o original_comments(Tail(original_lines))
         ELSE IF comment_ends_at(Head(original_lines)) THEN <<>>
         ELSE original_comments(Tail(original_lines))

\* the stamp datetime.now() is written as
DateStamp == <<"2","0","2","6","-","1","1","-","0","6"," ","0","0",":","0","0",":","0","0">>

\* header_comment.rstrip(), line by line; target is <<>> for the header of a
\* merged job, and holds the job for the header of inserted steps
header_comment(template_name, enhancement_description, target) ==
    <<<<"#"," ","E","n","h","a","n","c","e","d"," ","b","y"," ","O","n","b","o","a","r","d","i","n","g"," ","T","o","o","l">>,
      <<"#"," ","T","e","m","p","l","a","t","e",":"," ">> \o template_name,
      <<"#"," ","C","h","a","n","g","e","s",":"," ">> \o enhancement_description>>
    \o (IF target = <<>> THEN <<>> ELSE <<<<"#"," ","T","a","r","g","e","t"," ","J","o","b",":"," ">> \o KeySpelling[target[1]]>>)
    \o <<<<"#"," ","D","a","t","e",":"," ">> \o DateStamp>>

\* result_lines before the lines of the enhanced text are gone through
result_head(original_lines, header) ==
    (IF original_comments(original_lines) /= <<>>
     THEN original_comments(original_lines) \o <<<<>>>>
     ELSE <<>>)
    \o header \o <<<<>>>>

\* the two comment lines put before a new job
job_comment(template_name, enhancement_description) ==
    <<<<" "," ","#"," ",">",">",">"," ","A","d","d","e","d"," ","b","y"," ","e","n","h","a","n","c","e","m","e","n","t",":"," ">> \o template_name,
      <<" "," ","#"," ">> \o enhancement_description>>

\* the two comment lines put before new steps
step_comment(template_name, enhancement_description) ==
    <<<<" "," "," "," "," "," ","#"," ",">",">",">"," ","A","d","d","e","d"," ","s","t","e","p","s"," ","b","y"," ","e","n","h","a","n","c","e","m","e","n","t",":"," ">> \o template_name,
      <<" "," "," "," "," "," ","#"," ">> \o enhancement_description>>

\* a line that is taken for the first line of a job: two blanks, then a
\* character that is no blank, and a colon somewhere (the text that yaml.dump
\* writes has no line of two blanks only, for which line[2] would fail)
looks_like_job(line) ==
    /\ Len(line) > 2
    /\ starts_with(line, Spaces(2))
    /\ line[3] /= " "
    /\ str_contains(line, <<":">>)

\* f"  {job_name}:" not in original_yaml
job_is_new(line, original_lines) ==
    LET job_name == str_strip(split_first(line, <<":">>))
    IN  \A n \in DOMAIN original_lines :
            ~str_contains(original_lines[n], Spaces(2) \o job_name \o <<":">>)

\* for i, line in enumerate(lines), from line i on (i counts from 0)
RECURSIVE job_comment_scan(_, _, _, _, _, _)
job_comment_scan(lines, i, in_jobs, job_added, original_lines, comment) ==
    IF i >= Len(lines) THEN <<>>
    ELSE LET line == lines[i + 1]
         IN  IF i < 3 /\ str_strip(line) = <<>>
             THEN job_comment_scan(lines, i + 1, in_jobs, job_added, original_lines, comment)
             ELSE IF str_strip(line) = <<"j","o","b","s",":">>
             THEN <<line>> \o job_comment_scan(lines, i + 1, TRUE, job_added, original_lines, comment)
             ELSE IF in_jobs /\ looks_like_job(line) /\ ~job_added
                     /\ job_is_new(line, original_lines)
             THEN comment \o <<line>>
                  \o job_comment_scan(lines, i + 1, in_jobs, TRUE, original_lines, comment)
             ELSE <<line>>
                  \o job_comment_scan(lines, i + 1, in_jobs, job_added, original_lines, comment)

add_enhancement_comments(original_lines, enhanced_lines, enhancement_description, template_name) ==
    result_head(original_lines, header_comment(template_name, enhancement_description, <<>>))
    \o job_comment_scan(enhanced_lines, 0, FALSE, FALSE, original_lines,
                        job_comment(template_name, enhancement_description))

\* step.get('name', ''), as far as it is a string that is not empty
step_name(step) ==
    IF step.t = "map" /\ dict_has(step, "name") /\ dict_get(step, "name").t = "str"
    THEN dict_get(step, "name").s
    ELSE <<>>

\* workflow_dict['jobs'][target_job].get('steps', []) when the job is there
steps_of_job(workflow_dict, target_job) ==
    IF dict_has(workflow_dict, "jobs") /\ dict_has(dict_get(workflow_dict, "jobs"), target_job)
    THEN LET job == dict_get(dict_get(workflow_dict, "jobs"), target_job)
         IN  IF dict_has(job, "steps") THEN dict_get(job, "steps").e ELSE <<>>
    ELSE <<>>

\* the names of the steps of the enhanced job that no step of the original
\* job has; a step without a name adds nothing
new_step_names(original_steps, enhanced_steps) ==
    {step_name(enhanced_steps[n]) : n \in
        {n \in DOMAIN enhanced_steps :
            /\ step_name(enhanced_steps[n]) /= <<>>
            /\ \A h \in DOMAIN original_steps :
                   ~(/\ dict_has(original_steps[h], "name")
                     /\ dict_get(original_steps[h], "name") = Str(step_name(enhanced_steps[n])))}}

\* the line is the first line of a step that begins with its name, and the
\* name is one of the new names
names_new_step(line, names) ==
    /\ str_contains(line, <<" "," "," "," "," "," ","-"," ","n","a","m","e",":">>)
    /\ str_strip(split_second(line, <<"n","a","m","e",":">>)) \in names

\* for i, line in enumerate(lines), from line i on (i counts from 0)
RECURSIVE step_comment_scan(_, _, _, _, _, _, _, _)
step_comment_scan(lines, i, in_target_job, in_steps, step_comment_added, target_job, names, comment) ==
    IF i >= Len(lines) THEN <<>>
    ELSE LET line == lines[i + 1]
             in_job == in_target_job
                       \/ str_contains(line, Spaces(2) \o KeySpelling[target_job] \o <<":">>)
             in_list == in_steps \/ (in_job /\ str_contains(line, <<" "," "," "," ","s","t","e","p","s",":">>))
         IN  IF i < 3 /\ str_strip(line) = <<>>
             THEN step_comment_scan(lines, i + 1, in_target_job, in_steps, step_comment_added,
                                    target_job, names, comment)
             ELSE IF in_list /\ ~step_comment_added /\ names_new_step(line, names)
             THEN comment \o <<line>>
                  \o step_comment_scan(lines, i + 1, in_job, in_list, TRUE,
                                       target_job, names, comment)
             ELSE <<line>>
                  \o step_comment_scan(lines, i + 1, in_job, in_list, step_comment_added,
                                       target_job, names, comment)

\* original_dict and enhanced_dict are what the two texts load to
add_step_enhancement_comments(original_lines, enhanced_lines, original_dict, enhanced_dict, enhancement_description, template_name, target_job) ==
    result_head(original_lines,
                header_comment(template_name, enhancement_description, <<target_job>>))
    \o step_comment_scan(enhanced_lines, 0, FALSE, FALSE, FALSE, target_job,
                         new_step_names(steps_of_job(original_dict, target_job),
                                        steps_of_job(enhanced_dict, target_job)),
                         step_comment(template_name, enhancement_description))

-----------------------------------------------------------------------------
(* The preview flow (main.py): a fragment is merged or inserted, and the text *)
(* returned is annotated. The original text is the document as yaml.dump      *)
(* writes it, below a block of comment lines and blank lines.                 *)

\* longest block of lines above the document
MaxLeading == 2

TemplateName == <<"T">>

Description == <<"D">>

StepNamedBuild ==
    Map(<<Entry("name", Str(<<"B","u","i","l","d">>)),
          Entry("uses", Str(<<"p","o","l","a","r","i","s">>))>>)

StepBlock == Map(<<Entry("run", Str(<<"a","\n","b","\n">>))>>)

AnnotateDocuments ==
    {WorkflowOf(TopPlain,
                <<Entry("build", JobWithSteps(<<StepCheckout, StepBuild, StepTest>>))>>),
     WorkflowOf(<<Entry("name", Str(<<"C","I">>)),
                  Entry("env", Map(<<Entry("deploy", Str(<<"x">>))>>))>>,
                <<Entry("build", JobWithSteps(<<StepCheckout, StepBlock>>)),
                  Entry("test", JobWithSteps(<<StepTest>>))>>),
     WorkflowOf(TopPlain,
                <<Entry("test", JobWithSteps(<<StepScan>>)),
                  Entry("build", Map(<<RunsOn>>))>>),
     Map(TopPlain)}

LeadingLines == {<<"#"," ","a">>, <<" "," ","#"," ","b">>, <<>>}

LeadingBlocks == UNION {[1..n -> LeadingLines] : n \in 0..MaxLeading}

AnnotateJobFragments == {BodyScan, Wrapped(BodyScan), Map(<<RunsOn>>)}

AnnotateStepFragments ==
    {StepScan, Lst(<<StepScan, StepReport>>), Lst(<<StepReport, StepScan>>),
     Lst(<<StepReport>>), StepNamedBuild}

\* what the flow returns: the document the enhanced text denotes, and the
\* lines of the annotated text
Annotated(enhanced, lines) == [ok |-> TRUE, err |-> "", doc |-> enhanced, lines |-> lines]

InitAnnotate ==
    /\ doc \in AnnotateDocuments
    /\ call = NoCall
    /\ out = Raised("")

\* preview of a job fragment: merge_job_into_workflow, then add_enhancement_comments
AnnotateJob ==
    /\ call.op = "none"
    /\ \E leading \in LeadingBlocks, job_yaml \in AnnotateJobFragments,
          job_id \in {"scan", "deploy"}, insert_after \in {<<>>, <<"build">>} :
          LET enhanced == merge_job_into_workflow(doc, job_yaml, job_id, insert_after)
          IN  /\ call' = [op |-> "annotate_job", fragment |-> job_yaml, job_id |-> job_id,
                          insert_after |-> insert_after, leading |-> leading]
              /\ out' = IF enhanced.ok
                        THEN Annotated(enhanced.doc,
                                 add_enhancement_comments(leading \o dump_lines(doc),
                                                          dump_lines(enhanced.doc),
                                                          Description, TemplateName))
                        ELSE enhanced
    /\ UNCHANGED doc

\* preview of a step fragment: insert_step_into_job, then add_step_enhancement_comments
AnnotateSteps ==
    /\ call.op = "none"
    /\ \E leading \in LeadingBlocks, step_yaml \in AnnotateStepFragments,
          target_job \in {"build", "test"}, position \in {"end", "after_build"} :
          LET enhanced == insert_step_into_job(doc, step_yaml, target_job, position)
          IN  /\ call' = [op |-> "annotate_step", fragment |-> step_yaml,
                          target_job |-> target_job, insert_position |-> position,
                          leading |-> leading]
              /\ out' = IF enhanced.ok
                        THEN Annotated(enhanced.doc,
                                 add_step_enhancement_comments(
                                     leading \o dump_lines(doc), dump_lines(enhanced.doc),
                                     doc, enhanced.doc, Description, TemplateName, target_job))
                        ELSE enhanced
    /\ UNCHANGED doc

NextAnnotate == AnnotateJob \/ AnnotateSteps

SpecAnnotate == InitAnnotate /\ [][NextAnnotate]_vars

\* the position of key in the entries of a mapping
KeyIndex(entries, key) == CHOOSE n \in DOMAIN entries : entries[n].k = key

\* the line of the dumped document d on which the job id begins
JobLine(d, id) ==
    LET before == SubSeq(d.m, 1, KeyIndex(d.m, "jobs") - 1)
        jobs == dict_get(d, "jobs").m
    IN  Len(emit_mapping(before)) + 1
        + Len(emit_mapping(SubSeq(jobs, 1, KeyIndex(jobs, id) - 1))) + 1

\* the line of the dumped document d on which step n of the job id begins
StepLine(d, id, n) ==
    LET job == JobOf(d, id).m
    IN  JobLine(d, id)
        + Len(emit_mapping(SubSeq(job, 1, KeyIndex(job, "steps") - 1))) + 1
        + Len(emit_sequence(SubSeq(StepsOf(d, id), 1, n - 1))) + 1

\* the lines with the block placed before line n
PlacedBefore(lines, n, block) ==
    SubSeq(lines, 1, n - 1) \o block \o SubSeq(lines, n, Len(lines))

\* the last n lines of the annotated text
LastLines(n) == SubSeq(out.lines, Len(out.lines) - n + 1, Len(out.lines))

\* the position in the step list at which insert_step has put the first step
\* of the fragment
FirstNewStep ==
    LET steps == StepsOf(doc, call.target_job)
    IN  IF call.insert_position = "after_build"
        THEN AfterLastBuildStep(steps) + 1
        ELSE Len(steps) + 1

AnnotatedJob == call.op = "annotate_job" /\ out.ok

AnnotatedSteps == call.op = "annotate_step" /\ out.ok

\* C22: the annotated text is the enhanced text below the header, with the
\* explanatory comment lines put once, immediately before the line on which
\* the new job begins (after a merge) or on which the first new step begins
\* (after an insertion), and nowhere else, whether or not the new job or
\* steps have a name.
C22_CommentPlaced ==
    LET enhanced == dump_lines(out.doc)
    IN  /\ AnnotatedJob =>
              /\ Len(out.lines) >= Len(enhanced) + 2
              /\ LastLines(Len(enhanced) + 2) =
                     PlacedBefore(enhanced, JobLine(out.doc, call.job_id),
                                  job_comment(TemplateName, Description))
        /\ AnnotatedSteps =>
              /\ Len(out.lines) >= Len(enhanced) + 2
              /\ LastLines(Len(enhanced) + 2) =
                     PlacedBefore(enhanced,
                                  StepLine(out.doc, call.target_job, FirstNewStep),
                                  step_comment(TemplateName, Description))

\* the original text of an annotation: the lines above the document, then
\* the document
OriginalLines == call.leading \o dump_lines(doc)

\* a line that is neither blank nor a comment
IsContent(line) == str_strip(line) /= <<>> /\ str_strip(line)[1] /= "#"

\* the lines above the first line of content that are not blank
LeadingComments(lines) ==
    LET first == IF \E n \in DOMAIN lines : IsContent(lines[n])
                 THEN CHOOSE n \in DOMAIN lines :
                          IsContent(lines[n]) /\ \A h \in 1..(n - 1) : ~IsContent(lines[h])
                 ELSE Len(lines) + 1
    IN  SelectSeq(SubSeq(lines, 1, first - 1), LAMBDA line : str_strip(line) /= <<>>)

\* the first line of the generated header
HeaderLine == header_comment(TemplateName, Description, <<>>)[1]

\* C23: the comment lines above the first line of content of the original
\* text are the first lines of the annotated text, in the same order; the
\* generated header comes after them, and no line of content comes before the
\* header.
C23_LeadingCommentsKept ==
    (AnnotatedJob \/ AnnotatedSteps) =>
        LET kept == LeadingComments(OriginalLines)
        IN  /\ Len(out.lines) > Len(kept) + 1
            /\ SubSeq(out.lines, 1, Len(kept)) = kept
            /\ \E n \in DOMAIN out.lines :
                  /\ n > Len(kept)
                  /\ out.lines[n] = HeaderLine
                  /\ \A h \in 1..(n - 1) : ~IsContent(out.lines[h])
                  /\ \A h \in (Len(kept) + 1)..(n - 1) : out.lines[h] = <<>>

\* a blank line and a comment above the document, and an annotation made
C23_Witness ==
    /\ AnnotatedJob \/ AnnotatedSteps
    /\ Len(call.leading) = 2
    /\ call.leading[1] = <<>>
    /\ Len(LeadingComments(OriginalLines)) = 1
    /\ out.lines[1] = call.leading[2]

-----------------------------------------------------------------------------
(* Steps given to the classifier, and its state machine: doc is the step *)

StepCommands ==
    {<<"m","v","n"," ","p","a","c","k","a","g","e">>,
     <<"g","r","a","d","l","e"," ","b","u","i","l","d">>,
     <<"n","p","m"," ","r","u","n"," ","b","u","i","l","d">>,
     <<"d","o","t","n","e","t"," ","b","u","i","l","d">>,
     <<"g","o"," ","b","u","i","l","d">>,
     <<"C","a","r","g","o"," ","B","u","i","l","d">>,
     <<"m","a","k","e">>,
     <<"n","p","m"," ","t","e","s","t">>,
     <<"p","o","l","a","r","i","s"," ","s","c","a","n">>,
     <<"s","n","y","k"," ","t","e","s","t">>,
     <<"o","w","a","s","p","-","z","a","p"," ","s","c","a","n">>,
     <<"b","l","a","c","k"," ","d","u","c","k"," ","d","e","t","e","c","t">>,
     <<"c","d"," ","m","a","v","e","n","-","a","p","p"," ","&","&"," ","n","p","m"," ","r","u","n"," ","b","u","i","l","d">>,
     <<"e","c","h","o"," ","h","i">>,
     <<"s","o","n","a","r","-","s","c","a","n","n","e","r">>,
     <<"c","o","v","e","r","i","t","y","\n","m","a","k","e">>,
     <<"g","r","a","d","l","e"," ","a","s","s","e","m","b","l","e"," ","&","&"," ","s","n","y","k"," ","t","e","s","t">>}

StepActions ==
    {<<"a","c","t","i","o","n","s","/","c","h","e","c","k","o","u","t">>,
     <<"s","y","n","o","p","s","y","s","/","p","o","l","a","r","i","s">>,
     <<"o","w","a","s","p","/","z","a","p">>,
     <<"g","i","t","h","u","b","/","c","o","d","e","q","l","-","a","c","t","i","o","n">>}

\* a step with any of the commands or none, and any of the actions or none
ClassifiedSteps ==
    {Map(r \o u) : r \in {<<>>} \cup {<<Entry("run", Str(c))>> : c \in StepCommands},
                   u \in {<<>>} \cup {<<Entry("uses", Str(a))>> : a \in StepActions}}

InitClassify ==
    /\ doc \in ClassifiedSteps
    /\ call = NoCall
    /\ out = Raised("")

AnalyzeStep ==
    /\ call.op = "none"
    /\ call' = [NoCall EXCEPT !.op = "analyze_step"]
    /\ out' = Returned(analyze_step(doc))
    /\ UNCHANGED doc

NextClassify == AnalyzeStep

SpecClassify == InitClassify /\ [][NextClassify]_vars

\* the tool each build pattern and each security pattern is the invocation of
BuildToolOf == <<"maven", "gradle", "npm", "dotnet", "go", "cargo", "make">>

SecurityToolOf ==
    <<"polaris", "coverity", "blackduck", "blackduck", "codeql", "snyk", "sonarqube", "owasp">>

\* the lowered text of a key of the step, empty when the step has no such key
LoweredText(key) ==
    IF dict_has(doc, key) /\ dict_get(doc, key).t = "str"
    THEN str_lower(dict_get(doc, key).s)
    ELSE <<>>

\* the tools of which a pattern matches the text
ToolsMatched(patterns, tools, text) ==
    {tools[n] : n \in {n \in DOMAIN patterns : re_search(patterns[n], text)}}

\* C24: a step marked as a build step has a build tool label, and the label is
\* the tool of a build pattern that matches its command; a step marked as a
\* security scan has a security tool label, and the label is the tool of a
\* security pattern that matches its command or its action.
C24_LabelNamesTool ==
    call.op = "analyze_step" =>
        /\ out.doc.is_build_step =>
              /\ out.doc.build_tool /= <<>>
              /\ out.doc.build_tool[1]
                     \in ToolsMatched(BUILD_PATTERNS, BuildToolOf, LoweredText("run"))
        /\ out.doc.is_security_scan =>
              /\ out.doc.security_tool /= <<>>
              /\ out.doc.security_tool[1]
                     \in ToolsMatched(SECURITY_TOOL_PATTERNS, SecurityToolOf, LoweredText("run"))
                         \cup ToolsMatched(SECURITY_TOOL_PATTERNS, SecurityToolOf, LoweredText("uses"))

-----------------------------------------------------------------------------
(* The remove-duplicates flow (main.py): the matches chosen are removed one   *)
(* after the other, the jobs first, each removal from the text the one before *)
(* returned                                                                   *)

\* for job_dup in jobs_to_remove: ... for step_dup in steps_to_remove: ...
RECURSIVE remove_each(_, _)
remove_each(modified_content, to_remove) ==
    IF to_remove = <<>> THEN modified_content
    ELSE LET dup == Head(to_remove)
             removed ==
                 IF dup.type = "job"
                 THEN (IF dup.job_name /= ""
                       THEN remove_job_from_workflow(modified_content, dup.job_name).doc
                       ELSE modified_content)
                 ELSE (IF dup.job_name /= "" /\ dup.step_indices /= <<>>
                       THEN remove_steps_from_job(modified_content, dup.job_name,
                                                  Range(dup.step_indices)).doc
                       ELSE modified_content)
         IN  remove_each(removed, Tail(to_remove))

remove_workflow_duplicates(original_content, duplicates_to_remove) ==
    LET jobs_to_remove == SelectSeq(duplicates_to_remove, LAMBDA d : d.type = "job")
        steps_to_remove == SelectSeq(duplicates_to_remove, LAMBDA d : d.type = "steps")
    IN  Returned(remove_each(original_content, jobs_to_remove \o steps_to_remove))

\* the matches that detect_step_duplicates reports on the document are removed
RemoveDetected ==
    /\ call.op = "none"
    /\ \E template_data \in DetectStepTemplates :
          /\ call' = [NoCall EXCEPT !.op = "remove_detected", !.fragment = template_data]
          /\ out' = remove_workflow_duplicates(doc, detect_step_duplicates(doc, template_data))
    /\ UNCHANGED doc

NextDedupe == RemoveDetected

SpecDedupe == InitDetect /\ [][NextDedupe]_vars

\* the windows reported for a job of the document, as sets of positions
\* counted from 0
ReportedWindows(id) ==
    LET found == detect_step_duplicates(doc, call.fragment)
    IN  {Range(found[n].step_indices) : n \in {n \in DOMAIN found : found[n].job_name = id}}

\* two or more windows were reported for the job, and no two of them overlap
SeveralWindows(id) ==
    /\ Cardinality(ReportedWindows(id)) >= 2
    /\ \A a, b \in ReportedWindows(id) : a /= b => a \cap b = {}

\* the steps at positions (counted from 0) outside the set
StepsOutside(steps, positions) ==
    LET kept == {i \in DOMAIN steps : (i - 1) \notin positions}
        pick[i \in 0..Len(steps)] ==
            IF i = 0 THEN <<>>
            ELSE IF i \in kept THEN Append(pick[i - 1], steps[i]) ELSE pick[i - 1]
    IN  pick[Len(steps)]

\* C25: after the matches reported for a step fragment were removed one after
\* the other, a job for which two or more windows were reported, no two of
\* them overlapping, has its steps outside the reported windows and no others,
\* and has no window equal to the fragment.
C25_DetectedRemoved ==
    call.op = "remove_detected" =>
        \A id \in Range(JobOrder(doc)) :
            SeveralWindows(id) =>
                /\ StepsOf(out.doc, id) =
                       Written(StepsOutside(StepsOf(doc, id), UNION ReportedWindows(id)))
                /\ \A n \in DOMAIN detect_step_duplicates(out.doc, call.fragment) :
                       detect_step_duplicates(out.doc, call.fragment)[n].job_name /= id

-----------------------------------------------------------------------------
(* generate_enhancement_recommendations (workflow_enhancement_helpers.py) and *)
(* the preview flow that applies a recommendation (main.py)                   *)

\* for job_name, job_info in workflow_analysis['jobs'].items(): the first job
\* with build steps, <<>> when there is none
RECURSIVE first_build_job(_)
first_build_job(jobs) ==
    IF jobs = <<>> THEN <<>>
    ELSE IF Head(jobs).info.has_build_steps THEN <<Head(jobs).id>>
    ELSE first_build_job(Tail(jobs))

\* the insertion point of the recommendation: into the first job with build
\* steps for a step fragment, and the first insertion point of the analysis
\* for a job fragment
recommended_insertion_point(workflow_analysis) ==
    LET target_job_name == first_build_job(workflow_analysis.jobs)
        insertion_points == workflow_analysis.insertion_points
    IN  IF target_job_name /= <<>>
        THEN [template_fragment_type |-> "step", location |-> "step_in_job",
              target_job |-> target_job_name[1], after_step |-> "build"]
        ELSE [template_fragment_type |-> "job",
              location |-> IF insertion_points /= <<>> THEN insertion_points[1].location ELSE "end",
              after_job |-> IF insertion_points /= <<>> THEN insertion_points[1].after_job ELSE <<>>]

\* the id the preview gives the job of a job fragment
PreviewJobId == "scan"

\* preview_workflow_enhancement with the insertion point as recommended:
\* insertion_point.get('after_step', 'after_build') is the position given to
\* insert_step_into_job
preview_workflow_enhancement(original_workflow, template_content, insertion_point) ==
    IF insertion_point.template_fragment_type = "step"
    THEN insert_step_into_job(original_workflow, template_content,
                              insertion_point.target_job, insertion_point.after_step)
    ELSE merge_job_into_workflow(original_workflow, template_content, PreviewJobId,
                                 insertion_point.after_job)

\* a recommendation is made for the document and applied unchanged
ApplyRecommendation ==
    /\ call.op = "none"
    /\ \E step_yaml \in StepFragments, job_yaml \in JobFragments :
          LET analysis == analyze_workflow_dict(doc)
              insertion_point == recommended_insertion_point(analysis.doc)
              by_step == insertion_point.template_fragment_type = "step"
          IN  IF ~analysis.ok
              THEN call' = [NoCall EXCEPT !.op = "recommend"] /\ out' = analysis
              ELSE /\ call' = [NoCall EXCEPT
                                  !.op = IF by_step THEN "apply_step" ELSE "apply_job",
                                  !.fragment = IF by_step THEN step_yaml ELSE job_yaml,
                                  !.target_job = IF by_step THEN insertion_point.target_job ELSE "",
                                  !.insert_position = IF by_step THEN insertion_point.after_step ELSE "",
                                  !.insert_after = IF by_step THEN <<>> ELSE insertion_point.after_job]
                   /\ out' = preview_workflow_enhancement(
                                 doc, IF by_step THEN step_yaml ELSE job_yaml, insertion_point)
    /\ UNCHANGED doc

NextRecommend == ApplyRecommendation

SpecRecommend == Init /\ [][NextRecommend]_vars

\* C26: when the recommendation made for a document is a step fragment and
\* its insertion point is applied unchanged, the steps of the fragment are in
\* the target job right after its last step of the build/test keyword family.
C26_RecommendedPlacement ==
    (call.op = "apply_step" /\ out.ok) =>
        LET steps == StepsOf(doc, call.target_job)
        IN  StepsOf(out.doc, call.target_job) =
                Written(Spliced(steps, AfterLastBuildStep(steps), FragmentSteps(call.fragment)))

-----------------------------------------------------------------------------
(* A fragment is merged or inserted, and then looked for in the text returned *)

\* merge_job_into_workflow, then detect_job_duplicates with the same fragment
MergeThenDetect ==
    /\ call.op = "none"
    /\ \E job_yaml \in JobFragments, job_id \in JobIds, insert_after \in InsertAfters :
          LET merged == merge_job_into_workflow(doc, job_yaml, job_id, insert_after)
          IN  /\ call' = [NoCall EXCEPT !.op = "merge_detect", !.fragment = job_yaml,
                                        !.job_id = job_id, !.insert_after = insert_after]
              /\ out' = IF merged.ok
                        THEN Returned(detect_job_duplicates(merged.doc, job_yaml))
                        ELSE merged
    /\ UNCHANGED doc

\* insert_step_into_job, then detect_step_duplicates with the same fragment
InsertThenDetect ==
    /\ call.op = "none"
    /\ \E step_yaml \in StepFragments, target_job \in JobIds, position \in Positions :
          LET inserted == insert_step_into_job(doc, step_yaml, target_job, position)
          IN  /\ call' = [NoCall EXCEPT !.op = "insert_detect", !.fragment = step_yaml,
                                        !.target_job = target_job,
                                        !.insert_position = position]
              /\ out' = IF inserted.ok
                        THEN Returned(detect_step_duplicates(inserted.doc, step_yaml))
                        ELSE inserted
    /\ UNCHANGED doc

\* merge_job_into_workflow, then remove_job_from_workflow of the same job
MergeThenRemove ==
    /\ call.op = "none"
    /\ \E job_yaml \in JobFragments, job_id \in JobIds, insert_after \in InsertAfters :
          LET merged == merge_job_into_workflow(doc, job_yaml, job_id, insert_after)
          IN  /\ call' = [NoCall EXCEPT !.op = "merge_remove", !.fragment = job_yaml,
                                        !.job_id = job_id, !.insert_after = insert_after]
              /\ out' = IF merged.ok
                        THEN remove_job_from_workflow(merged.doc, job_id)
                        ELSE merged
    /\ UNCHANGED doc

NextCompose == MergeThenDetect \/ InsertThenDetect \/ MergeThenRemove

SpecCompose == Init /\ [][NextCompose]_vars

\* C27: when a job fragment, a bare job body or a mapping of one job id to a
\* body, was merged under an id the document did not have, detect_job_duplicates
\* with the same fragment on the text returned reports the job merged.
C27_MergedIsDetected ==
    (call.op = "merge_detect" /\ out.ok /\ ~HasJob(doc, call.job_id)) =>
        \E n \in DOMAIN out.doc : out.doc[n].job_name = call.job_id

\* the positions, counted from 0, at which insert_step has put the steps of
\* the fragment
InsertedRange ==
    LET steps == StepsOf(doc, call.target_job)
        at == CASE call.insert_position = "after_build" -> AfterLastBuildStep(steps)
                [] call.insert_position = "before_end" ->
                       (IF Len(steps) >= 2 THEN Len(steps) - 1 ELSE 0)
                [] OTHER -> Len(steps)
    IN  [h \in 1..Len(FragmentSteps(call.fragment)) |-> at + h - 1]

\* C28: when a step fragment, a single step or a sequence of steps, was
\* inserted into a job of the document, detect_step_duplicates with the same
\* fragment on the text returned reports a match in that job whose indices are
\* those at which the steps were inserted.
C28_InsertedIsDetected ==
    (call.op = "insert_detect" /\ out.ok /\ HasJob(doc, call.target_job)) =>
        \E n \in DOMAIN out.doc :
            /\ out.doc[n].job_name = call.target_job
            /\ out.doc[n].step_indices = InsertedRange

\* C29: when a job fragment was merged under an id the document did not have,
\* removing the job of that id from the text returned gives a document
\* structurally equal to the original one, also when the original one had no
\* jobs section.
C29_MergeRemoveIdentity ==
    (call.op = "merge_remove" /\ out.ok /\ ~HasJob(doc, call.job_id)) =>
        StructurallyEqual(out.doc, doc)

\* the job of the analysis an insertion point is anchored at carries the flag
AnchoredAt(location, classified) ==
    \A n \in DOMAIN Points :
        Points[n].location = location =>
            \E i \in classified : <<out.doc.jobs[i].id>> = Points[n].after_job

\* C30: in every analysis an after-build-job point is present exactly when
\* has_build_job is true, its anchor is a job whose has_build_steps is true,
\* and the anchor of an after-test-job point is a job whose has_test_steps is
\* true.
C30_PlannerAgrees ==
    (call.op = "plan" /\ out.ok) =>
        /\ (\E n \in DOMAIN Points : Points[n].location = "after_build")
               <=> out.doc.has_build_job
        /\ AnchoredAt("after_build", BuildClassified)
        /\ AnchoredAt("after_test", TestClassified)

====
